---- MODULE Spec2Model ----
(***************************************************************************)
(* kimi-cli execution core: the run/step loop (Soul.run), the EventQueue   *)
(* between the loop and the shell's visualizer (ShellApp._visualize), the  *)
(* shell's run wrapper (ShellApp._soul_run) and the translation of tool    *)
(* results into conversation messages (tool_result_to_messages).           *)
(*                                                                         *)
(* kimi_cli/soul.py is not among the sources; the run loop is modelled     *)
(* from section 4.2 of the specification.  Everything else is modelled     *)
(* from the code.                                                          *)
(***************************************************************************)
EXTENDS Integers, Sequences, FiniteSets, TLC

VARIABLES
    pc,               \* position of the run task (Soul.run)
    step,             \* RunSession: current step counter
    max_steps,        \* LoopControl.max_steps of this controller
    cancel_requested, \* RunSession: cancellation flag of the hosting task
    tool_calls,       \* call ids requested by the model in the current turn
    pending,          \* call ids of the current step not yet finished
    inflight,         \* call ids whose tool invocation is running
    next_id,          \* next fresh tool call id of this run
    fragments,        \* content / argument fragments streamed in this run
    context,          \* the conversation context: a list of Message
    step_context,     \* history: the context when the current step began
    queue,            \* EventQueue._queue: the unread events
    emitted,          \* history: every event put on the queue in this run
    consumed,         \* history: every event returned by get in this run
    vis_pc,           \* position of the consumer task (ShellApp._visualize)
    failure,          \* the exception that left Soul.run, if any
    soul_run_ret,     \* what ShellApp._soul_run returned and logged
    model_calls,      \* history: invocations of the model capability in this run
    bash_pc,          \* position of one Bash.__call__ invocation
    timeout,          \* Bash.__call__: the timeout argument of the invocation
    process,          \* the child process: none, running, exited or killed
    returncode,       \* the exit status of the child once it has exited
    pipe,             \* per stream, the lines written by the child and not yet read
    writer_open,      \* per stream, whether the child still holds its end open
    reader_done,      \* per stream, whether _read_stream has seen EOF and returned
    output_lines,     \* Bash.__call__: the list `output` filled by the callbacks
    written,          \* history: per stream, every line the child wrote
    cancel_bash,      \* the task running Bash.__call__ has been cancelled
    bash_exc,         \* the exception raised inside the invocation, if any
    origin,           \* history: the stream each element of `output` was read from
    bash_ret,         \* what Bash.__call__ returned
    expired,          \* history: the timeout has elapsed since the call
    tr_pc,            \* position of one call of tool_result_to_messages
    tr_input,         \* the ToolResult handed to tool_result_to_messages
    tr_output,        \* the list of messages it returned
    tr_seen,          \* history: the input and the output of one earlier call
    shell_pc,         \* position of ShellApp.run: prompt, soul_run or exited
    runs,             \* history: the _soul_run calls made by ShellApp.run
    run_input,        \* history: the user input of the last _soul_run call
    _meta_commands,         \* metacmd.py: primary name -> MetaCommand
    _meta_command_aliases,  \* metacmd.py: primary name or alias -> MetaCommand
    app_pc,           \* position of one invocation of kimi / kimi_run
    entry,            \* the function invoked: kimi (the command line) or kimi_run
    ui,               \* kimi: the --ui option
    command,          \* kimi: the --command option, if given
    work_dir,         \* kimi: the --work-dir option
    cwd,              \* the working directory of the process
    original_cwd,     \* kimi_run: the local original_cwd
    app_ret,          \* what app.run(command) returned
    app_exc,          \* the exception leaving kimi_run, if any
    exit_status       \* the exit status of the process once it has exited

vars == <<pc, step, max_steps, cancel_requested, tool_calls, pending, inflight,
          next_id, fragments, context, step_context, queue, emitted, consumed,
          vis_pc, failure, soul_run_ret, model_calls, bash_pc, timeout, process,
          returncode, pipe, writer_open, reader_done, output_lines, written,
          cancel_bash, bash_exc, origin, bash_ret, expired, tr_pc, tr_input, tr_output,
          tr_seen, shell_pc, runs, run_input, _meta_commands,
          _meta_command_aliases, app_pc, entry, ui, command, work_dir, cwd, original_cwd,
          app_ret, app_exc, exit_status>>

run_vars == <<pc, step, max_steps, cancel_requested, tool_calls, pending, inflight,
              next_id, fragments, context, step_context, queue, emitted, consumed,
              vis_pc, failure, soul_run_ret, model_calls>>

bash_vars == <<bash_pc, timeout, process, returncode, pipe, writer_open, reader_done,
               output_lines, written, cancel_bash, bash_exc, origin, bash_ret, expired>>

tr_vars == <<tr_pc, tr_input, tr_output, tr_seen>>

\* What the steps of the run, of the Bash invocation and of the translator
\* leave alone.
shell_vars == <<shell_pc, runs, run_input>>

meta_vars == <<_meta_commands, _meta_command_aliases>>

app_vars == <<app_pc, entry, ui, command, work_dir, cwd, original_cwd, app_ret, app_exc,
              exit_status>>

not_run_vars == <<bash_vars, tr_vars, shell_vars, app_vars, meta_vars>>

not_bash_vars == <<run_vars, tr_vars, shell_vars, app_vars, meta_vars>>

not_tr_vars == <<run_vars, bash_vars, shell_vars, app_vars, meta_vars>>

(***************************************************************************)
(* Bounds of the model.                                                    *)
(***************************************************************************)
MaxStepsBound == 2      \* max_steps is drawn from 1..MaxStepsBound
MaxCalls == 3           \* tool calls the model may request in one run
MaxFragments == 1       \* content / argument fragments streamed in one run
MaxWrites == 2          \* lines the child of one Bash invocation may write
MaxParts == 2           \* content parts in the output sequence of one ToolOk
MaxPureParts == 1       \* the same, for the inputs of repeated translator calls
MaxRuns == 2            \* _soul_run calls of one ShellApp.run

(***************************************************************************)
(* kimi_cli/event.py: the events.  An event is a record with its type and  *)
(* n, the step index of a StepBegin and the call id of a ToolCall,         *)
(* ToolCallPart or ToolResult; a ToolResult also carries its outcome.      *)
(***************************************************************************)
NoText == << >>

Ev(type, n) == [type |-> type, n |-> n]

RunBegin == Ev("RunBegin", 0)

RunEnd == Ev("RunEnd", 0)

StepBegin(n) == Ev("StepBegin", n)

StepInterrupted == Ev("StepInterrupted", 0)

ContextUsageUpdate == Ev("ContextUsageUpdate", 0)

ContentPartEvent == Ev("ContentPart", 0)

ToolCall(id) == Ev("ToolCall", id)

ToolCallPart(id) == Ev("ToolCallPart", id)

ToolResult(id, result) == [type |-> "ToolResult", n |-> id, result |-> result]

ControlFlowEvent == {"RunBegin", "RunEnd", "StepBegin", "StepInterrupted", "ContextUsageUpdate"}

Terminal == {"StepInterrupted", "RunEnd"}

(***************************************************************************)
(* kimi_cli/event.py: EventQueue over an unbounded asyncio.Queue.          *)
(***************************************************************************)
\* asyncio.Queue() of line 36: built without a maxsize, which is maxsize 0.
maxsize == 0

\* full() of a queue built with maxsize 1.
full_bounded(q) == Len(q) >= 1

\* asyncio.Queue.full(): a queue of maxsize 0 is never full; put_nowait
\* raises QueueFull on a full queue.
full(q) == maxsize > 0 /\ Len(q) >= maxsize

\* put_nowait that adds at the front (a LIFO queue).
put_nowait_lifo(q, event) == <<event>> \o q

put_nowait(q, event) == Append(q, event)

get_ready(q) == q # << >>

\* get that returns the newest event.
get_event_newest(q) == q[Len(q)]

get_event(q) == Head(q)

get_rest(q) == Tail(q)

(***************************************************************************)
(* kimi_cli/utils/message.py.  A text is a sequence of tokens, so that     *)
(* wrapping a message in <system>...</system> is not the identity; the     *)
(* empty text is the empty sequence.  A content part is a TextPart or      *)
(* another ContentPart (an image).  A ToolOk output is a str, one          *)
(* ContentPart or a sequence of ContentParts.                              *)
(***************************************************************************)
TextPart(text) == [kind |-> "text", text |-> text]

ImagePart(url) == [kind |-> "image", text |-> url]

StrOutput(text) == [form |-> "str", text |-> text, parts |-> << >>]

PartOutput(part) == [form |-> "part", text |-> NoText, parts |-> <<part>>]

SeqOutput(parts) == [form |-> "seq", text |-> NoText, parts |-> parts]

ToolOk(output, message) ==
    [kind |-> "ok", output |-> output, message |-> message, brief |-> NoText]

ToolError(output, message, brief) ==
    [kind |-> "error", output |-> StrOutput(output), message |-> message, brief |-> brief]

\* A message that does not carry the tool call id.
Message_without_call_id(role, content, tool_call_id) ==
    [role |-> role, content |-> content, tool_call_id |-> 0]

Message(role, content, tool_call_id) ==
    [role |-> role, content |-> content, tool_call_id |-> tool_call_id]

NoCallId == 0

\* system_message that leaves the text untagged.
system_message_untagged(message) == TextPart(message)

system_message(message) == TextPart(<<"<system>">> \o message \o <<"</system>">>)

\* isinstance(part, TextPart) that holds for every part.
isTextPart_any(part) == TRUE

isTextPart(part) == part.kind = "text"

isNonTextPart(part) == part.kind # "text"

\* tool_ok_to_message_content that puts the human message after the output.
tool_ok_to_message_content_message_last(result) ==
    LET c1 == CASE result.output.form = "str" ->
                     IF result.output.text # NoText
                     THEN <<TextPart(result.output.text)>> ELSE << >>
                [] result.output.form = "part" -> <<result.output.parts[1]>>
                [] OTHER -> result.output.parts
        c2 == IF result.message # NoText THEN Append(c1, system_message(result.message)) ELSE c1
    IN IF c2 = << >> THEN <<system_message(<<"Tool output is empty.">>)>> ELSE c2

\* tool_ok_to_message_content without the normalization of an empty content.
tool_ok_to_message_content_no_sentinel(result) ==
    LET c1 == IF result.message # NoText THEN <<system_message(result.message)>> ELSE << >>
    IN CASE result.output.form = "str" ->
                IF result.output.text # NoText
                THEN Append(c1, TextPart(result.output.text)) ELSE c1
         [] result.output.form = "part" -> Append(c1, result.output.parts[1])
         [] OTHER -> c1 \o result.output.parts

tool_ok_to_message_content(result) ==
    LET c1 == IF result.message # NoText THEN <<system_message(result.message)>> ELSE << >>
        c2 == CASE result.output.form = "str" ->
                     IF result.output.text # NoText
                     THEN Append(c1, TextPart(result.output.text)) ELSE c1
                [] result.output.form = "part" -> Append(c1, result.output.parts[1])
                [] OTHER -> c1 \o result.output.parts
    IN IF c2 = << >> THEN <<system_message(<<"Tool output is empty.">>)>> ELSE c2

\* tool_result_to_messages that produces no message for a ToolError.
tool_result_to_messages_skip_error(tool_result) ==
    IF tool_result.result.kind = "error"
    THEN << >>
    ELSE LET content == tool_ok_to_message_content(tool_result.result)
             text_parts == SelectSeq(content, isTextPart)
             non_text_parts == SelectSeq(content, isNonTextPart)
         IN IF non_text_parts = << >>
            THEN <<Message("tool", text_parts, tool_result.tool_call_id)>>
            ELSE <<Message("tool",
                           Append(text_parts, system_message(
                               <<"Tool output contains non-text parts. Non-text parts are sent as a user message below.">>)),
                           tool_result.tool_call_id),
                   Message("user", non_text_parts, NoCallId)>>

NonTextNotice ==
    <<"Tool output contains non-text parts. Non-text parts are sent as a user message below.">>

\* tool_result_to_messages that keeps state between calls: after an earlier
\* call it leaves the content of the tool message empty.
tool_result_to_messages_stateful(tool_result) ==
    IF tr_seen.input.tool_call_id = NoCallId
    THEN <<Message("tool", <<system_message(tool_result.result.message)>>,
                   tool_result.tool_call_id)>>
    ELSE <<Message("tool", << >>, tool_result.tool_call_id)>>

\* The assert on a ToolError without a message is an AssertionError, shown
\* here as a one-element list holding a marker of role "AssertionError".
tool_result_to_messages(tool_result) ==
    IF tool_result.result.kind = "error"
    THEN IF tool_result.result.message = NoText
         THEN <<Message("AssertionError", << >>, tool_result.tool_call_id)>>
         ELSE LET content == <<system_message(tool_result.result.message)>> \o
                             (IF tool_result.result.output.text # NoText
                              THEN <<TextPart(tool_result.result.output.text)>>
                              ELSE << >>)
              IN <<Message("tool", content, tool_result.tool_call_id)>>
    ELSE LET content == tool_ok_to_message_content(tool_result.result)
             text_parts == SelectSeq(content, isTextPart)
             non_text_parts == SelectSeq(content, isNonTextPart)
         IN IF non_text_parts = << >>
            THEN <<Message("tool", text_parts, tool_result.tool_call_id)>>
            ELSE <<Message("tool", Append(text_parts, system_message(NonTextNotice)),
                           tool_result.tool_call_id),
                   Message("user", non_text_parts, NoCallId)>>

(***************************************************************************)
(* kimi_cli/ui/shell/__init__.py: ShellApp._visualize, one get() and what  *)
(* follows it up to the next get().  Positions: expect_run_begin (the get  *)
(* of line 126), expect_step_begin (line 128), step_begin (line 133),      *)
(* step_loop (line 154), stopped (returned), raised (an assert failed).    *)
(***************************************************************************)
StepContent ==
    {"TextPart", "ContentPart", "ToolCall", "ToolCallPart", "ToolResult", "ContextUsageUpdate"}

\* What the match statement of lines 137-151 may see in an event: a ContentPart
\* is a TextPart (line 138) or a content part of another class (line 140).
Matched(event) ==
    IF event.type = "ContentPart" THEN {[event EXCEPT !.type = "TextPart"], event} ELSE {event}

\* _visualize that leaves its loop at a StepBegin instead of starting a step.
_visualize_break_at_step(at, event) ==
    CASE at = "expect_run_begin" ->
             IF event.type = "RunBegin" THEN "expect_step_begin" ELSE "raised"
      [] at = "expect_step_begin" ->
             IF event.type = "StepBegin" THEN "step_begin" ELSE "raised"
      [] at \in {"step_begin", "step_loop"} ->
             IF event.type \in StepContent THEN "step_loop"
             ELSE IF event.type \in {"StepInterrupted", "StepBegin", "RunEnd"} THEN "stopped"
             ELSE "raised"
      [] OTHER -> at

\* _visualize whose match statement has no case for a ContentPart other than
\* a TextPart.
_visualize_text_only(at, event) ==
    CASE at = "expect_run_begin" ->
             IF event.type = "RunBegin" THEN "expect_step_begin" ELSE "raised"
      [] at = "expect_step_begin" ->
             IF event.type = "StepBegin" THEN "step_begin" ELSE "raised"
      [] at \in {"step_begin", "step_loop"} ->
             IF event.type \in StepContent \ {"ContentPart"} THEN "step_loop"
             ELSE IF event.type = "StepInterrupted" THEN "stopped"
             ELSE IF event.type = "StepBegin" THEN "step_begin"
             ELSE IF event.type = "RunEnd" THEN "stopped"
             ELSE "raised"
      [] OTHER -> at

\* _visualize that goes on with the step after a StepInterrupted.
_visualize_past_interrupt(at, event) ==
    CASE at = "expect_run_begin" ->
             IF event.type = "RunBegin" THEN "expect_step_begin" ELSE "raised"
      [] at = "expect_step_begin" ->
             IF event.type = "StepBegin" THEN "step_begin" ELSE "raised"
      [] at \in {"step_begin", "step_loop"} ->
             IF event.type \in StepContent \cup {"StepInterrupted"} THEN "step_loop"
             ELSE IF event.type = "StepBegin" THEN "step_begin"
             ELSE IF event.type = "RunEnd" THEN "stopped"
             ELSE "raised"
      [] OTHER -> at

_visualize(at, event) ==
    CASE at = "expect_run_begin" ->
             IF event.type = "RunBegin" THEN "expect_step_begin" ELSE "raised"
      [] at = "expect_step_begin" ->
             IF event.type = "StepBegin" THEN "step_begin" ELSE "raised"
      [] at \in {"step_begin", "step_loop"} ->
             IF event.type \in StepContent THEN "step_loop"
             ELSE IF event.type = "StepInterrupted" THEN "stopped"
             ELSE IF event.type = "StepBegin" THEN "step_begin"
             ELSE IF event.type = "RunEnd" THEN "stopped"
             ELSE "raised"
      [] OTHER -> at

VisWaiting == {"expect_run_begin", "expect_step_begin", "step_begin", "step_loop"}

(***************************************************************************)
(* kimi_cli/ui/shell/__init__.py: ShellApp._soul_run, from the exception   *)
(* that leaves asyncio.run(soul.run(...)) to the value returned and the    *)
(* line logged.                                                            *)
(***************************************************************************)
NoFailure == [exc |-> "none", n_steps |-> 0]

NotReturned == [returned |-> FALSE, value |-> FALSE, log |-> "", n_steps |-> 0]

\* _soul_run without the MaxStepsReached handler: the exception is caught by
\* the BaseException handler.
_soul_run_no_max_steps(exc) ==
    CASE exc.exc = "none" ->
             [returned |-> TRUE, value |-> TRUE, log |-> "", n_steps |-> 0]
      [] exc.exc = "ChatProviderError" ->
             [returned |-> TRUE, value |-> FALSE, log |-> "LLM provider error:", n_steps |-> 0]
      [] exc.exc = "KeyboardInterrupt" ->
             [returned |-> TRUE, value |-> FALSE, log |-> "Interrupted by user", n_steps |-> 0]
      [] OTHER ->
             [returned |-> TRUE, value |-> FALSE, log |-> "Unknown error:", n_steps |-> 0]

\* _soul_run taking an interrupt for a normal end of the run.
_soul_run_interrupt_ok(exc) ==
    CASE exc.exc \in {"none", "KeyboardInterrupt"} ->
             [returned |-> TRUE, value |-> TRUE, log |-> "", n_steps |-> 0]
      [] exc.exc = "ChatProviderError" ->
             [returned |-> TRUE, value |-> FALSE, log |-> "LLM provider error:", n_steps |-> 0]
      [] exc.exc = "MaxStepsReached" ->
             [returned |-> TRUE, value |-> FALSE, log |-> "Max steps reached: {n_steps}",
              n_steps |-> exc.n_steps]
      [] OTHER ->
             [returned |-> TRUE, value |-> FALSE, log |-> "Unknown error:", n_steps |-> 0]

_soul_run(exc) ==
    CASE exc.exc = "none" ->
             [returned |-> TRUE, value |-> TRUE, log |-> "", n_steps |-> 0]
      [] exc.exc = "ChatProviderError" ->
             [returned |-> TRUE, value |-> FALSE, log |-> "LLM provider error:", n_steps |-> 0]
      [] exc.exc = "MaxStepsReached" ->
             [returned |-> TRUE, value |-> FALSE, log |-> "Max steps reached: {n_steps}",
              n_steps |-> exc.n_steps]
      [] exc.exc = "KeyboardInterrupt" ->
             [returned |-> TRUE, value |-> FALSE, log |-> "Interrupted by user", n_steps |-> 0]
      [] OTHER ->
             [returned |-> TRUE, value |-> FALSE, log |-> "Unknown error:", n_steps |-> 0]

(***************************************************************************)
(* The tool outcomes a tool invocation of a run may return, and the user   *)
(* input of a run.                                                         *)
(***************************************************************************)
OkParts == ToolOk(SeqOutput(<<TextPart(<<"caption">>), ImagePart(<<"img">>)>>), NoText)

ErrExit == ToolError(<<"oops">>, <<"Command failed with exit code: 2">>,
                     <<"Failed with exit code: 2">>)

RunOutcomes == {OkParts, ErrExit}

UserMessage == Message("user", <<TextPart(<<"input">>)>>, NoCallId)

(***************************************************************************)
(* kimi_cli/tools/bash/__init__.py: the Bash tool.  A line read from a     *)
(* stream is bytes, a sequence of byte values; a str is a sequence of      *)
(* characters.                                                             *)
(***************************************************************************)
Streams == {"stdout", "stderr"}

DefaultTimeout == 60

\* tests/test_tool_schemas.py: the bounds the schema test expects.
SchemaMinimum == 1

SchemaMaximum == 300

\* The schema of the timeout parameter as Bash declares it.
parameters == [type |-> "number", default |-> DefaultTimeout]

\* The schema of the timeout parameter as test_bash_params_schema expects it.
expected_parameters ==
    [type |-> "integer", default |-> DefaultTimeout,
     maximum |-> SchemaMaximum, minimum |-> SchemaMinimum]

\* JSON Schema validation of an integer argument against a parameter schema.
validates(schema, value) ==
    /\ schema.type \in {"number", "integer"}
    /\ "minimum" \in DOMAIN schema => value >= schema.minimum
    /\ "maximum" \in DOMAIN schema => value <= schema.maximum

\* The timeout arguments a caller may pass; leaving the argument out is the
\* default.
TimeoutArguments == {SchemaMinimum - 1, DefaultTimeout, SchemaMaximum + 1}

\* The lines a child may write: "a\n", "b\n" and a line that is not UTF-8.
ChildLines == {<<97, 10>>, <<98, 10>>, <<255, 10>>}

ExitCodes == {0, 2, -9}

chr(byte) ==
    CASE byte = 10 -> "\n"
      [] byte = 97 -> "a"
      [] byte = 98 -> "b"

\* bytes.decode() raises UnicodeDecodeError unless the bytes are UTF-8.
decodable(line) == \A i \in DOMAIN line : line[i] < 128

decode(line) == [i \in DOMAIN line |-> chr(line[i])]

\* "".join(output)
RECURSIVE join(_)
join(strs) == IF strs = << >> THEN << >> ELSE Head(strs) \o join(Tail(strs))

\* str(n) of an integer, as its characters.
digit(d) == CASE d = 0 -> "0" [] d = 1 -> "1" [] d = 2 -> "2" [] d = 3 -> "3" [] d = 4 -> "4"
              [] d = 5 -> "5" [] d = 6 -> "6" [] d = 7 -> "7" [] d = 8 -> "8" [] d = 9 -> "9"

RECURSIVE digits(_)
digits(n) == IF n < 10 THEN <<digit(n)>> ELSE Append(digits(n \div 10), digit(n % 10))

str(n) == IF n < 0 THEN <<"-">> \o digits(-n) ELSE digits(n)

\* stdout_cb and stderr_cb that drops the line.
stderr_cb_drop(out, line) == out

stdout_cb(out, line) == Append(out, decode(line))

stderr_cb(out, line) == Append(out, decode(line))

\* Lines 44-51 with every exit status reported as success.
exit_result_always_ok(exitcode, out) ==
    ToolOk(StrOutput(join(out)), <<"Command executed successfully.">>)

\* Bash.__call__, lines 44-51: the outcome once _stream_subprocess returned.
exit_result(exitcode, out) ==
    LET output_str == join(out)
    IN IF exitcode = 0
       THEN ToolOk(StrOutput(output_str), <<"Command executed successfully.">>)
       ELSE ToolError(output_str,
                      <<"Command failed with exit code: ">> \o str(exitcode),
                      <<"Failed with exit code: ">> \o str(exitcode))

\* Lines 52-58 with the captured output left out of the outcome.
timeout_result_no_output(out, seconds) ==
    ToolError(<< >>,
              <<"Command killed by timeout (">> \o str(seconds) \o <<"s)">>,
              <<"Killed by timeout (">> \o str(seconds) \o <<"s)">>)

\* Bash.__call__, lines 52-58: the outcome when TimeoutError was raised.
timeout_result(out, seconds) ==
    LET output_str == join(out)
    IN ToolError(output_str,
                 <<"Command killed by timeout (">> \o str(seconds) \o <<"s)">>,
                 <<"Killed by timeout (">> \o str(seconds) \o <<"s)">>)

\* process.kill(): a child that has exited is left as it is.
kill(child) == IF child = "running" THEN "killed" ELSE child

\* _stream_subprocess, lines 84-86: only TimeoutError is handled; any other
\* exception leaves the function without touching the child.
on_exception(exc, child) == IF exc = "TimeoutError" THEN kill(child) ELSE child

NoReturn == [kind |-> "none"]

NoInput == [tool_call_id |-> NoCallId, result |-> NoReturn]

NoSeen == [input |-> NoInput, output |-> << >>, between |-> FALSE]

(***************************************************************************)
(* The run loop, Soul.run (specification, section 4.2).  An action is the  *)
(* code the run task executes between two suspension points; the           *)
(* suspension points are the wait on the model stream (pc = "model") and   *)
(* the wait on a tool invocation (pc = "tool").                            *)
(***************************************************************************)
RECURSIVE PutAll(_, _)
PutAll(q, events) ==
    IF events = << >> THEN q
    ELSE PutAll(put_nowait(q, Head(events)), Tail(events))

\* Every put_nowait of the events finds the queue not full.
CanPutAll(q, events) ==
    \A k \in DOMAIN events : ~full(q \o SubSeq(events, 1, k - 1))

Emit(events) ==
    /\ CanPutAll(queue, events)
    /\ queue' = PutAll(queue, events)
    /\ emitted' = emitted \o events

Ended == {"done", "interrupted", "failed"}

Suspended == {"model", "tool"}

\* 5: a cancellation of the run task is observed at its next suspension
\* point; a cancelled task is resumed with the cancellation, never with the
\* result it was waiting for.
\* A run task that is resumed with the awaited result although it was cancelled.
ResumableThoughCancelled == TRUE

Resumable == ~cancel_requested

\* 4.2 d: the tool calls of a step are invoked one at a time, in order.
\* All tool calls of the step invoked at once.
ToInvokeAll(calls) == {calls[i] : i \in DOMAIN calls}

ToInvoke(calls) == IF calls = << >> THEN {} ELSE {Head(calls)}

\* The check made one step too late.
StepLimitExceeded_late(n, limit) == n > limit + 1

\* 4.2 f: the incremented step counter is checked against max_steps.
StepLimitExceeded(n, limit) == n > limit

\* 4.2 c: a turn without tool calls finishes the run.
\* Every completed turn finishes the run.
TurnAlwaysFinishesRun(calls) == TRUE

TurnFinishesRun(calls) == calls = << >>

(***************************************************************************)
(* kimi_cli/__init__.py: the inputs of kimi and kimi_run.  A command is    *)
(* the text of --command, or no command; a directory is the sequence of    *)
(* the components of its path, absolute when it begins with "/".           *)
(***************************************************************************)
NoCommand == [given |-> FALSE, text |-> << >>]

Command(text) == [given |-> TRUE, text |-> text]

Commands == {NoCommand, Command(<< >>), Command(<<" ">>), Command(<<"hi">>),
             Command(<<" ", "hi", " ">>)}

UIs == {"shell", "print", "web"}

Root == <<"/">>

Home == <<"/", "home">>

Proj == <<"/", "home", "proj">>

\* The directories that exist.
Dirs == {Root, Home, Proj}

WorkDirs == {<<"proj">>, Proj, Root, <<"/", "gone">>}

NoDir == << >>

\* str.strip(): the text without its leading and trailing blanks.
RECURSIVE lstrip(_)
lstrip(text) ==
    IF text # << >> /\ Head(text) = " " THEN lstrip(Tail(text)) ELSE text

RECURSIVE rstrip(_)
rstrip(text) ==
    IF text # << >> /\ text[Len(text)] = " "
    THEN rstrip(SubSeq(text, 1, Len(text) - 1))
    ELSE text

strip(text) == rstrip(lstrip(text))

\* Path.absolute() and the path resolution of os.chdir: a relative path is
\* taken from the working directory.
absolute(path, dir) == IF path # << >> /\ Head(path) = "/" THEN path ELSE dir \o path

\* os.chdir(path): the working directory after the call.
chdir(path, dir) == absolute(path, dir)

NoAppReturn == [returned |-> FALSE, value |-> FALSE]

AppReturn(value) == [returned |-> TRUE, value |-> value]

\* What asyncio.run(soul.run(...)) may leave _soul_run with: a normal return
\* or an exception.
SoulRunOutcomes ==
    {NoFailure,
     [exc |-> "ChatProviderError", n_steps |-> 0],
     [exc |-> "MaxStepsReached", n_steps |-> 1],
     [exc |-> "KeyboardInterrupt", n_steps |-> 0],
     [exc |-> "CancelledError", n_steps |-> 0],
     [exc |-> "SystemExit", n_steps |-> 0],
     [exc |-> "RuntimeError", n_steps |-> 0]}

(***************************************************************************)
(* kimi_cli/ui/tui/metacmd.py: the registry of meta commands.  A text is   *)
(* the sequence of its blanks, its slashes and its words; a dict is the    *)
(* sequence of its items in insertion order; a function is known by its    *)
(* __name__ and what its body does.                                        *)
(***************************************************************************)
Exit == <<"exit">>

Quit == <<"quit">>

Help == <<"help">>

Slash == <<"/">>

Blank == <<" ">>

NoName == << >>

NoFunc == [__name__ |-> NoName, body |-> "none"]

\* metacmd.py 136-140: the body of exit raises NotImplementedError.
ExitFunc == [__name__ |-> Exit, body |-> "NotImplementedError"]

\* metacmd.py 143-158: help prints the panel of commands.
HelpFunc == [__name__ |-> Help, body |-> "print"]

MetaCommand(name, func, aliases) == [name |-> name, func |-> func, aliases |-> aliases]

\* The None of get_meta_command.
NoMetaCommand == MetaCommand(NoName, NoFunc, << >>)

Item(key, value) == [key |-> key, value |-> value]

dict_has(d, key) == \E i \in DOMAIN d : d[i].key = key

\* d.get(key)
dict_get(d, key) ==
    IF dict_has(d, key)
    THEN d[CHOOSE i \in DOMAIN d : d[i].key = key].value
    ELSE NoMetaCommand

\* d[key] = value: a key already there keeps its place.
dict_set(d, key, value) ==
    IF dict_has(d, key)
    THEN [i \in DOMAIN d |-> IF d[i].key = key THEN Item(key, value) ELSE d[i]]
    ELSE Append(d, Item(key, value))

\* list(d.values())
dict_values(d) == [i \in DOMAIN d |-> d[i].value]

\* metacmd.py 100-102: for alias in alias_list: d[alias] = cmd
RECURSIVE dict_set_all(_, _, _)
dict_set_all(d, keys, value) ==
    IF keys = << >> THEN d
    ELSE dict_set_all(dict_set(d, Head(keys), value), Tail(keys), value)

\* metacmd.py 81-82, 85-90: the command _register builds.
registered(f, name, aliases) ==
    MetaCommand(IF name # NoName THEN name ELSE f.__name__, f, aliases)

\* metacmd.py 93: _meta_commands after _register.
register_commands(commands, f, name, aliases) ==
    dict_set(commands, registered(f, name, aliases).name, registered(f, name, aliases))

\* metacmd.py 94, 97-98: _meta_command_aliases after _register.
register_aliases(by_name, f, name, aliases) ==
    LET cmd == registered(f, name, aliases)
    IN dict_set_all(dict_set(by_name, cmd.name, cmd), aliases, cmd)

\* metacmd.py 32-33
get_meta_command(by_name, name) == dict_get(by_name, name)

\* metacmd.py 36-38
get_meta_commands(commands) == dict_values(commands)

\* metacmd.py 136-158: the registrations made when the module is imported.
ImportedCommands ==
    register_commands(register_commands(<< >>, ExitFunc, NoName, <<Quit>>),
                      HelpFunc, NoName, <<<<"h">>, <<"?">>>>)

ImportedAliases ==
    register_aliases(register_aliases(<< >>, ExitFunc, NoName, <<Quit>>),
                     HelpFunc, NoName, <<<<"h">>, <<"?">>>>)

MetaImported ==
    /\ _meta_commands = ImportedCommands
    /\ _meta_command_aliases = ImportedAliases

(***************************************************************************)
(* kimi_cli/ui/shell/__init__.py: what session.prompt() gives the loop and *)
(* the text operations of the loop and of _run_meta_command.               *)
(***************************************************************************)
Typed(text) == [exc |-> "none", text |-> text]

Raised(exc) == [exc |-> exc, text |-> << >>]

Hello == <<"hello">>

\* str.startswith
startswith(text, prefix) ==
    Len(text) >= Len(prefix) /\ SubSeq(text, 1, Len(prefix)) = prefix

\* The position of the first blank of text, or 0.
find_blank(text) ==
    IF \E i \in DOMAIN text : text[i] = " "
    THEN CHOOSE i \in DOMAIN text : text[i] = " " /\ \A j \in 1..(i - 1) : text[j] # " "
    ELSE 0

\* str.split(" ")
RECURSIVE split(_)
split(text) ==
    IF find_blank(text) = 0 THEN <<text>>
    ELSE <<SubSeq(text, 1, find_blank(text) - 1)>>
             \o split(SubSeq(text, find_blank(text) + 1, Len(text)))

\* kimi has not been invoked.
AppIdle ==
    /\ app_pc = "idle"
    /\ entry = "kimi"
    /\ ui = "shell"
    /\ command = NoCommand
    /\ work_dir = Proj
    /\ cwd = Proj
    /\ original_cwd = NoDir
    /\ app_ret = NoAppReturn
    /\ app_exc = "none"
    /\ exit_status = << >>

\* No Bash invocation has been made.
BashIdle ==
    /\ bash_pc = "idle"
    /\ timeout = DefaultTimeout
    /\ process = "none"
    /\ returncode = 0
    /\ pipe = [s \in Streams |-> << >>]
    /\ writer_open = [s \in Streams |-> FALSE]
    /\ reader_done = [s \in Streams |-> FALSE]
    /\ output_lines = << >>
    /\ written = [s \in Streams |-> << >>]
    /\ cancel_bash = FALSE
    /\ bash_exc = "none"
    /\ origin = << >>
    /\ bash_ret = NoReturn
    /\ expired = FALSE

\* ShellApp.run(command) with a command, lines 37-40: _soul_run is called once.
ShellCommand ==
    /\ shell_pc = "soul_run"
    /\ runs = 1
    /\ run_input = Hello
    /\ MetaImported

\* No tool result has been handed to the translator.
TranslateIdle ==
    /\ tr_pc = "idle"
    /\ tr_input = NoInput
    /\ tr_output = << >>
    /\ tr_seen = NoSeen

Init ==
    /\ pc = "idle"
    /\ step = 0
    /\ max_steps \in 1..MaxStepsBound
    /\ cancel_requested = FALSE
    /\ tool_calls = << >>
    /\ pending = << >>
    /\ inflight = {}
    /\ next_id = 1
    /\ fragments = 0
    /\ context = << >>
    /\ step_context = << >>
    /\ queue = << >>
    /\ emitted = << >>
    /\ consumed = << >>
    /\ vis_pc = "idle"
    /\ failure = NoFailure
    /\ soul_run_ret = NotReturned
    /\ model_calls = 0
    /\ BashIdle
    /\ TranslateIdle
    /\ ShellCommand
    /\ AppIdle

\* 4.2 steps 1, 2, 3a: append the user input, emit RunBegin and StepBegin(1),
\* then wait for the model.  The run has its own EventQueue and consumer task.
RunStart ==
    /\ pc = "idle"
    /\ shell_pc = "soul_run"
    /\ context' = Append(context, UserMessage)
    /\ step_context' = Append(context, UserMessage)
    /\ queue' = PutAll(<< >>, <<RunBegin, StepBegin(1)>>)
    /\ emitted' = <<RunBegin, StepBegin(1)>>
    /\ consumed' = << >>
    /\ vis_pc' = "expect_run_begin"
    /\ step' = 1
    /\ pc' = "model"
    /\ cancel_requested' = FALSE
    /\ tool_calls' = << >>
    /\ pending' = << >>
    /\ inflight' = {}
    /\ next_id' = 1
    /\ fragments' = 0
    /\ failure' = NoFailure
    /\ soul_run_ret' = NotReturned
    /\ model_calls' = 1
    /\ UNCHANGED max_steps
    /\ UNCHANGED not_run_vars

\* 4.2 b: a content fragment arrives and is emitted at once.
ModelContent ==
    /\ pc = "model" /\ Resumable
    /\ fragments < MaxFragments
    /\ fragments' = fragments + 1
    /\ Emit(<<ContentPartEvent>>)
    /\ UNCHANGED <<pc, step, max_steps, cancel_requested, tool_calls, pending, inflight,
                   next_id, context, step_context, consumed, vis_pc, failure, soul_run_ret,
                   model_calls>>
    /\ UNCHANGED not_run_vars

\* 4.2 b: a tool call with a fresh call id is announced.
ModelToolCall ==
    /\ pc = "model" /\ Resumable
    /\ next_id <= MaxCalls
    /\ tool_calls' = Append(tool_calls, next_id)
    /\ next_id' = next_id + 1
    /\ Emit(<<ToolCall(next_id)>>)
    /\ UNCHANGED <<pc, step, max_steps, cancel_requested, pending, inflight, fragments,
                   context, step_context, consumed, vis_pc, failure, soul_run_ret,
                   model_calls>>
    /\ UNCHANGED not_run_vars

\* 4.2 b: an argument fragment of the tool call announced last.
ModelToolCallPart ==
    /\ pc = "model" /\ Resumable
    /\ tool_calls # << >>
    /\ fragments < MaxFragments
    /\ fragments' = fragments + 1
    /\ Emit(<<ToolCallPart(tool_calls[Len(tool_calls)])>>)
    /\ UNCHANGED <<pc, step, max_steps, cancel_requested, tool_calls, pending, inflight,
                   next_id, context, step_context, consumed, vis_pc, failure, soul_run_ret,
                   model_calls>>
    /\ UNCHANGED not_run_vars

StepUsage_none == << >>

\* 4.2 e: the context usage is recomputed and emitted once the model turn of a
\* step has completed.
StepUsage == <<ContextUsageUpdate>>

\* 4.2 c, d, e: the model turn completes.  Without tool calls the run ends with
\* RunEnd; otherwise the first tool call is invoked and the run waits for it.
ModelTurnComplete ==
    /\ pc = "model" /\ Resumable
    /\ IF TurnFinishesRun(tool_calls)
       THEN /\ Emit(StepUsage \o <<RunEnd>>)
            /\ pc' = "done"
            /\ UNCHANGED <<pending, inflight>>
       ELSE /\ Emit(StepUsage)
            /\ pc' = "tool"
            /\ pending' = tool_calls
            /\ inflight' = ToInvoke(tool_calls)
    /\ UNCHANGED <<step, max_steps, cancel_requested, tool_calls, next_id, fragments,
                   context, step_context, consumed, vis_pc, failure, soul_run_ret,
                   model_calls>>
    /\ UNCHANGED not_run_vars

\* 4.2 d, f, g: a tool invocation returns its outcome.  The tool result is
\* emitted and its messages are appended to the context; then the next tool
\* call of the step is invoked, or the step counter is incremented and either
\* the next step begins or MaxStepsReached leaves run().
ToolReturn ==
    /\ pc = "tool" /\ Resumable
    /\ pending # << >>
    /\ \E outcome \in RunOutcomes :
          LET id == Head(pending)
              rest == Tail(pending)
              result == [tool_call_id |-> id, result |-> outcome]
          IN /\ context' = context \o tool_result_to_messages(result)
             /\ pending' = rest
             /\ inflight' = ToInvoke(rest)
             /\ IF rest # << >>
                THEN /\ Emit(<<ToolResult(id, outcome)>>)
                     /\ UNCHANGED <<pc, step, step_context, tool_calls, fragments, failure,
                                    model_calls>>
                ELSE /\ step' = step + 1
                     /\ IF StepLimitExceeded(step + 1, max_steps)
                        THEN /\ Emit(<<ToolResult(id, outcome)>>)
                             /\ pc' = "failed"
                             /\ failure' = [exc |-> "MaxStepsReached", n_steps |-> step + 1]
                             /\ UNCHANGED <<step_context, tool_calls, fragments, model_calls>>
                        ELSE /\ Emit(<<ToolResult(id, outcome), StepBegin(step + 1)>>)
                             /\ pc' = "model"
                             /\ step_context' = context'
                             /\ tool_calls' = << >>
                             /\ model_calls' = model_calls + 1
                             /\ UNCHANGED <<fragments, failure>>
    /\ UNCHANGED <<max_steps, cancel_requested, next_id, consumed, vis_pc, soul_run_ret>>
    /\ UNCHANGED not_run_vars

\* A provider failure after which the model capability is invoked again in
\* the same step.
ProviderErrorRetried ==
    /\ pc = "model" /\ Resumable
    /\ model_calls' = model_calls + 1
    /\ UNCHANGED <<pc, failure, step, max_steps, cancel_requested, tool_calls, pending, inflight,
                   next_id, fragments, context, step_context, queue, emitted, consumed, vis_pc,
                   soul_run_ret>>
    /\ UNCHANGED not_run_vars

\* 6, 7: the streaming model capability fails; the error leaves run() as it is.
ProviderError ==
    /\ pc = "model" /\ Resumable
    /\ pc' = "failed"
    /\ failure' = [exc |-> "ChatProviderError", n_steps |-> 0]
    /\ UNCHANGED <<step, max_steps, cancel_requested, tool_calls, pending, inflight, next_id,
                   fragments, context, step_context, queue, emitted, consumed, vis_pc, soul_run_ret,
                   model_calls>>
    /\ UNCHANGED not_run_vars

\* The hosting task is asked to stop while the run is suspended.
Cancel ==
    /\ pc \in Suspended /\ ~cancel_requested
    /\ cancel_requested' = TRUE
    /\ UNCHANGED <<pc, step, max_steps, tool_calls, pending, inflight, next_id, fragments,
                   context, step_context, queue, emitted, consumed, vis_pc, failure, soul_run_ret,
                   model_calls>>
    /\ UNCHANGED not_run_vars

\* Interrupt that also emits RunEnd on its way out.
InterruptThenRunEnd ==
    /\ pc \in Suspended /\ cancel_requested
    /\ Emit(<<StepInterrupted, RunEnd>>)
    /\ inflight' = {}
    /\ pc' = "interrupted"
    /\ UNCHANGED <<step, max_steps, cancel_requested, tool_calls, pending, next_id, fragments,
                   context, step_context, consumed, vis_pc, failure, soul_run_ret,
                   model_calls>>
    /\ UNCHANGED not_run_vars

\* Interrupt that rolls the context back to the beginning of the step.
InterruptWithRollback ==
    /\ pc \in Suspended /\ cancel_requested
    /\ Emit(<<StepInterrupted>>)
    /\ inflight' = {}
    /\ pc' = "interrupted"
    /\ context' = step_context
    /\ UNCHANGED <<step, max_steps, cancel_requested, tool_calls, pending, next_id, fragments,
                   step_context, consumed, vis_pc, failure, soul_run_ret,
                   model_calls>>
    /\ UNCHANGED not_run_vars

\* 4.2 Cancellation: the run observes the cancellation at its suspension
\* point, emits StepInterrupted and returns.
Interrupt ==
    /\ pc \in Suspended /\ cancel_requested
    /\ Emit(<<StepInterrupted>>)
    /\ inflight' = {}
    /\ pc' = "interrupted"
    /\ UNCHANGED <<step, max_steps, cancel_requested, tool_calls, pending, next_id, fragments,
                   context, step_context, consumed, vis_pc, failure, soul_run_ret,
                   model_calls>>
    /\ UNCHANGED not_run_vars

(***************************************************************************)
(* The consumer task: one EventQueue.get() of ShellApp._visualize.  get    *)
(* suspends the consumer while the queue is empty.                         *)
(***************************************************************************)
VisGet ==
    /\ vis_pc \in VisWaiting
    /\ get_ready(queue)
    /\ consumed' = Append(consumed, get_event(queue))
    /\ queue' = get_rest(queue)
    /\ \E event \in Matched(get_event(queue)) : vis_pc' = _visualize(vis_pc, event)
    /\ UNCHANGED <<pc, step, max_steps, cancel_requested, tool_calls, pending, inflight,
                   next_id, fragments, context, step_context, emitted, failure, soul_run_ret,
                   model_calls>>
    /\ UNCHANGED not_run_vars

\* _soul_run returning without the teardown of asyncio.run: a consumer still
\* suspended at a get is left as it is.
SoulRunReturnNoTeardown ==
    /\ pc \in Ended
    /\ ~soul_run_ret.returned
    /\ vis_pc \notin VisWaiting \/ pc = "failed"
    /\ soul_run_ret' = _soul_run(failure)
    /\ UNCHANGED <<pc, step, max_steps, cancel_requested, tool_calls, pending, inflight,
                   next_id, fragments, context, step_context, queue, emitted, consumed, failure,
                   model_calls, vis_pc>>
    /\ UNCHANGED not_run_vars

(***************************************************************************)
(* ShellApp._soul_run returns: asyncio.run has finished the run task.  A   *)
(* run that returned normally has waited for its consumer; when an         *)
(* exception leaves run(), asyncio.run cancels the consumer task.          *)
(***************************************************************************)
SoulRunReturn ==
    /\ pc \in Ended
    /\ ~soul_run_ret.returned
    /\ vis_pc \notin VisWaiting \/ pc = "failed"
    /\ soul_run_ret' = _soul_run(failure)
    /\ vis_pc' = IF vis_pc \in VisWaiting THEN "cancelled" ELSE vis_pc
    /\ UNCHANGED <<pc, step, max_steps, cancel_requested, tool_calls, pending, inflight,
                   next_id, fragments, context, step_context, queue, emitted, consumed, failure,
                   model_calls>>
    /\ UNCHANGED not_run_vars

Next ==
    \/ RunStart
    \/ ModelContent
    \/ ModelToolCall
    \/ ModelToolCallPart
    \/ ModelTurnComplete
    \/ ToolReturn
    \/ ProviderError
    \/ Cancel
    \/ Interrupt
    \/ VisGet
    \/ SoulRunReturn

Spec == Init /\ [][Next]_vars

\* The steps of a run without the streaming of content and of argument
\* fragments, whose events the consumer takes as it takes tool calls, tool
\* results and context usage updates.
NextLive ==
    \/ RunStart
    \/ ModelToolCall
    \/ ModelTurnComplete
    \/ ToolReturn
    \/ ProviderError
    \/ Cancel
    \/ Interrupt
    \/ VisGet
    \/ SoulRunReturn

\* The scheduling of asyncio: a consumer whose get can return is resumed, and
\* asyncio.run returns once the run task has finished.  Nothing is assumed
\* of the model, the tools or the operator.
SpecLive == Init /\ [][NextLive]_vars /\ WF_vars(VisGet) /\ WF_vars(SoulRunReturn)

(***************************************************************************)
(* Properties.                                                             *)
(***************************************************************************)
Last(seq) == seq[Len(seq)]

Positions(seq, types) == {i \in DOMAIN seq : seq[i].type \in types}

LastStepBegin(seq) ==
    LET at == Positions(seq, {"StepBegin"})
    IN IF at = {} THEN 0 ELSE CHOOSE i \in at : \A j \in at : j <= i

\* A prefix of RunBegin, StepBegin(1), then StepBegin, step content and at
\* most one terminal event, which is then the last one.
WellFormed(seq) ==
    /\ Len(seq) >= 1 => seq[1] = RunBegin
    /\ Len(seq) >= 2 => seq[2] = StepBegin(1)
    /\ \A i \in DOMAIN seq :
          /\ i >= 3 => seq[i].type \in StepContent \cup {"StepBegin"} \cup Terminal
          /\ seq[i].type \in Terminal => i = Len(seq)

Complete(seq) == Len(seq) >= 3 /\ Last(seq).type \in Terminal

\* C1 as stated: every run's observed sequence is RunBegin, StepBegin(1), then
\* StepBegin, content, tool-call and tool-result events, and ends with one
\* terminal event, StepInterrupted or RunEnd, which is last.
C1_Original ==
    pc \in Ended /\ queue = << >> =>
        /\ Len(consumed) >= 3
        /\ consumed[1] = RunBegin
        /\ consumed[2] = StepBegin(1)
        /\ \A i \in 3..(Len(consumed) - 1) :
              consumed[i].type \in {"StepBegin", "ContentPart", "ToolCall", "ToolCallPart",
                                    "ToolResult"}
        /\ Last(consumed).type \in Terminal

\* C1 (amended): the events emitted and the events observed by the consumer
\* always form a prefix of RunBegin, StepBegin(1), then StepBegin, content,
\* tool-call, tool-result and ContextUsageUpdate events, with at most one
\* terminal event, which is last; a run that ends Done or Interrupted has
\* emitted its terminal event, a consumer that stopped has observed it, and a
\* run that fails (step bound, provider error) emits no terminal event.
C1_EventSequence ==
    /\ WellFormed(emitted)
    /\ WellFormed(consumed)
    /\ pc \in {"done", "interrupted"} => Complete(emitted)
    /\ vis_pc = "stopped" => Complete(consumed) /\ consumed = emitted
    /\ pc \in {"done", "interrupted"} /\ soul_run_ret.returned => vis_pc = "stopped"
    /\ pc = "failed" => Positions(emitted, Terminal) = {}

C1_Witness ==
    /\ pc = "done" /\ step = 2 /\ vis_pc = "stopped" /\ soul_run_ret.returned
    /\ Positions(consumed, {"ToolResult"}) # {}
    /\ Positions(consumed, {"ContentPart"}) # {}

\* C2: the events returned by get are, in order, a prefix of the events put:
\* what was consumed followed by what is unread is exactly what was emitted,
\* so nothing is dropped, duplicated, reordered or coalesced, and get returns
\* nothing from an empty queue.
C2_Fifo == consumed \o queue = emitted

C2_Witness == Len(consumed) >= 3 /\ Len(queue) >= 2 /\ pc = "tool"

\* C3: with max_steps = N, a run that would need step N+1 fails with
\* MaxStepsReached carrying N+1, which _soul_run reports, and no RunEnd is
\* emitted in that run; no StepBegin above N is emitted.
C3_StepBound ==
    /\ step <= max_steps + 1
    /\ step = max_steps + 1 <=> failure.exc = "MaxStepsReached"
    /\ failure.exc = "MaxStepsReached" =>
          /\ pc = "failed"
          /\ failure.n_steps = max_steps + 1
          /\ Positions(emitted, {"RunEnd"}) = {}
          /\ Cardinality(Positions(emitted, {"StepBegin"})) = max_steps
          /\ soul_run_ret.returned =>
                /\ soul_run_ret.value = FALSE
                /\ soul_run_ret.log = "Max steps reached: {n_steps}"
                /\ soul_run_ret.n_steps = max_steps + 1

C3_Witness ==
    /\ failure.exc = "MaxStepsReached" /\ max_steps = 2 /\ soul_run_ret.returned
    /\ failure.n_steps = 3

\* C4: a run cancelled at a suspension point emits exactly one StepInterrupted,
\* as its last event, and no RunEnd, and returns without an exception; the
\* events emitted before stay in the queue as they were, and nothing is
\* emitted afterwards.  Once the cancellation is requested the run leaves its
\* suspension point only by being interrupted.
C4_Interrupted ==
    /\ pc = "interrupted" =>
          /\ Last(emitted) = StepInterrupted
          /\ Cardinality(Positions(emitted, {"StepInterrupted"})) = 1
          /\ Positions(emitted, {"RunEnd"}) = {}
          /\ failure = NoFailure
          /\ inflight = {}
    /\ Positions(emitted, {"StepInterrupted"}) # {} => pc = "interrupted"

C4_Cancellation ==
    [][/\ C4_Interrupted'
       /\ cancel_requested /\ pc' # pc => pc' = "interrupted"
       /\ pc # "interrupted" /\ pc' = "interrupted" =>
             /\ pc \in Suspended
             /\ emitted' = Append(emitted, StepInterrupted)
             /\ queue' = Append(queue, StepInterrupted)
             /\ consumed' = consumed
       /\ pc = "interrupted" => pc' = pc /\ emitted' = emitted]_vars

C4_Witness ==
    /\ pc = "interrupted" /\ soul_run_ret.returned /\ vis_pc = "stopped"
    /\ pending # << >> /\ step = 2

IsToolResult(e) == e.type = "ToolResult"

IsToolCall(e) == e.type = "ToolCall"

HasResult(seq, id) == \E i \in DOMAIN seq : seq[i].type = "ToolResult" /\ seq[i].n = id

Acknowledged(id) ==
    \E k \in DOMAIN context : context[k].role = "tool" /\ context[k].tool_call_id = id

\* C5: the tool calls of a step run one after the other in the order the model
\* issued them: at most one invocation is in flight, it is the first unfinished
\* call of the step, every earlier call of the step has its tool-result event
\* emitted and its message in the context, and the tool-result events follow
\* the order of the tool-call events.
C5_SequentialTools ==
    /\ Cardinality(inflight) <= 1
    /\ \A id \in inflight :
          /\ pc = "tool" /\ pending # << >> /\ id = Head(pending)
          /\ ~HasResult(emitted, id)
          /\ \A k \in DOMAIN tool_calls :
                tool_calls[k] < id => HasResult(emitted, tool_calls[k]) /\ Acknowledged(tool_calls[k])
    /\ LET results == SelectSeq(emitted, IsToolResult)
           calls == SelectSeq(emitted, IsToolCall)
       IN /\ Len(results) <= Len(calls)
          /\ \A i \in DOMAIN results : results[i].n = calls[i].n

C5_Witness ==
    /\ inflight = {2} /\ tool_calls = <<1, 2>> /\ HasResult(consumed, 1)

\* C6: every call id carried by a tool-result event, emitted or observed by
\* the consumer, was announced earlier in the run by a tool-call event with
\* that call id.
Announced(seq) ==
    \A i \in DOMAIN seq :
        seq[i].type = "ToolResult" =>
            \E j \in 1..(i - 1) : seq[j].type = "ToolCall" /\ seq[j].n = seq[i].n

C6_ResultsAnnounced == Announced(emitted) /\ Announced(consumed)

C6_Witness == HasResult(consumed, 2) /\ HasResult(consumed, 1)

\* C7: a model turn that completes without tool calls ends the run: RunEnd is
\* the last event, the run is Done and returns successfully, no tool is
\* invoked and no further step starts; a turn with tool calls goes on to its
\* tools, and RunEnd is emitted only by a turn without tool calls.
C7_Done ==
    /\ pc = "done" =>
          /\ Last(emitted) = RunEnd
          /\ \A i \in DOMAIN emitted : i > LastStepBegin(emitted) => emitted[i].type # "ToolCall"
          /\ tool_calls = << >> /\ pending = << >> /\ inflight = {}
          /\ failure = NoFailure
          /\ soul_run_ret.returned => soul_run_ret.value
    /\ Positions(emitted, {"RunEnd"}) # {} => pc = "done"

C7_NormalCompletion ==
    [][/\ C7_Done'
       /\ pc = "model" /\ pc' \notin {"model", "interrupted", "failed"} =>
             IF tool_calls = << >>
             THEN pc' = "done" /\ step' = step /\ inflight' = {}
             ELSE pc' = "tool"
       /\ pc = "done" =>
             /\ pc' = "done" /\ step' = step /\ inflight' = {}
             /\ emitted' = emitted /\ context' = context]_vars

C7_Witness ==
    /\ pc = "done" /\ step = 2 /\ soul_run_ret.returned /\ soul_run_ret.value
    /\ vis_pc = "stopped"

\* C8: a tool invocation that returns an Error does not end the run: its
\* tool-result event is emitted, its message is appended to the context, and
\* the loop goes on with the next tool call of the step or the next step; a
\* run fails only by the step bound or a provider error, and otherwise ends
\* Done or Interrupted.
ErrorResults == {i \in DOMAIN emitted : emitted[i].type = "ToolResult" /\ emitted[i].result.kind = "error"}

C8_Folded ==
    /\ \A i \in ErrorResults :
          \E k \in DOMAIN context :
              /\ context[k].role = "tool"
              /\ context[k].tool_call_id = emitted[i].n
              /\ context[k].content[1] = system_message(emitted[i].result.message)
    /\ pc = "failed" <=> failure.exc \in {"MaxStepsReached", "ChatProviderError"}
    /\ failure.exc = "MaxStepsReached" => step = max_steps + 1
    /\ failure.exc = "ChatProviderError" => step <= max_steps

C8_ToolErrorContinues ==
    [][/\ C8_Folded'
       /\ ErrorResults' # ErrorResults =>
             /\ pc = "tool"
             /\ Len(context') > Len(context)
             /\ IF Len(pending) > 1
                THEN pc' = "tool" /\ inflight' = {pending[2]} /\ step' = step
                ELSE /\ step' = step + 1
                     /\ IF step < max_steps
                        THEN pc' = "model" /\ Last(emitted') = StepBegin(step + 1)
                        ELSE pc' = "failed" /\ failure'.exc = "MaxStepsReached"]_vars

C8_Witness ==
    /\ pc = "done" /\ step = 2 /\ ErrorResults # {}
    /\ \E i \in ErrorResults : \E j \in DOMAIN emitted : j > i /\ emitted[j].type = "ToolResult"

\* C9: once the cancellation has reached the run, at the interruption point
\* and after the run has returned, no message is appended to the context and
\* the context does not change in any other way.
C9_ContextFrozen ==
    [][cancel_requested \/ pc = "interrupted" => context' = context]_vars

C9_Witness ==
    /\ pc = "interrupted" /\ soul_run_ret.returned /\ Len(context) >= 3 /\ pending # << >>

RECURSIVE Translated(_)
Translated(events) ==
    IF events = << >> THEN << >>
    ELSE (IF Head(events).type = "ToolResult"
          THEN tool_result_to_messages([tool_call_id |-> Head(events).n,
                                        result |-> Head(events).result])
          ELSE << >>) \o Translated(Tail(events))

SinceStepBegin(seq) == SubSeq(seq, LastStepBegin(seq) + 1, Len(seq))

C11_ProviderFailure ==
    /\ model_calls <= step
    /\ failure.exc = "ChatProviderError" =>
          /\ pc = "failed"
          /\ model_calls = step
          /\ context = step_context
          /\ soul_run_ret.returned =>
                soul_run_ret = [returned |-> TRUE, value |-> FALSE,
                                log |-> "LLM provider error:", n_steps |-> 0]

C11_Witness ==
    /\ failure.exc = "ChatProviderError"
    /\ step = 2
    /\ Len(context) > 1
    /\ soul_run_ret.returned /\ ~soul_run_ret.value

(***************************************************************************)
(* One invocation of the Bash tool and its child process.  Time is not     *)
(* measured: the timer of asyncio.wait_for may expire at any moment while  *)
(* the two readers are awaited.                                            *)
(***************************************************************************)
RunIdle ==
    /\ pc = "idle"
    /\ step = 0
    /\ max_steps = 1
    /\ cancel_requested = FALSE
    /\ tool_calls = << >>
    /\ pending = << >>
    /\ inflight = {}
    /\ next_id = 1
    /\ fragments = 0
    /\ context = << >>
    /\ step_context = << >>
    /\ queue = << >>
    /\ emitted = << >>
    /\ consumed = << >>
    /\ vis_pc = "idle"
    /\ failure = NoFailure
    /\ soul_run_ret = NotReturned
    /\ model_calls = 0

InitBash == RunIdle /\ BashIdle /\ TranslateIdle /\ ShellCommand /\ AppIdle

WrittenTotal == Len(written["stdout"]) + Len(written["stderr"])

\* Lines 30, 71-73: the tool is called with a timeout the declared schema
\* accepts and starts the child with both streams piped.
BashCall ==
    /\ bash_pc = "idle"
    /\ \E seconds \in TimeoutArguments :
          /\ validates(parameters, seconds)
          /\ timeout' = seconds
    /\ process' = "running"
    /\ writer_open' = [s \in Streams |-> TRUE]
    /\ bash_pc' = "reading"
    /\ UNCHANGED <<returncode, pipe, reader_done, output_lines, written, cancel_bash,
                   bash_exc, origin, bash_ret, expired>>
    /\ UNCHANGED not_bash_vars

\* The child writes a line to one of its streams.
ChildWrite ==
    /\ process = "running"
    /\ WrittenTotal < MaxWrites
    /\ \E s \in Streams, line \in ChildLines :
          /\ writer_open[s]
          /\ pipe' = [pipe EXCEPT ![s] = Append(@, line)]
          /\ written' = [written EXCEPT ![s] = Append(@, line)]
    /\ UNCHANGED <<bash_pc, timeout, process, returncode, writer_open, reader_done,
                   output_lines, cancel_bash, bash_exc, origin, bash_ret, expired>>
    /\ UNCHANGED not_bash_vars

\* The child closes one of its streams and goes on running.
ChildClose ==
    /\ process = "running"
    /\ \E s \in Streams :
          /\ writer_open[s]
          /\ writer_open' = [writer_open EXCEPT ![s] = FALSE]
    /\ UNCHANGED <<bash_pc, timeout, process, returncode, pipe, reader_done,
                   output_lines, written, cancel_bash, bash_exc, origin, bash_ret, expired>>
    /\ UNCHANGED not_bash_vars

\* The child exits; its streams are closed with it.
ChildExit ==
    /\ process = "running"
    /\ \E code \in ExitCodes : returncode' = code
    /\ process' = "exited"
    /\ writer_open' = [s \in Streams |-> FALSE]
    /\ UNCHANGED <<bash_pc, timeout, pipe, reader_done, output_lines, written,
                   cancel_bash, bash_exc, origin, bash_ret, expired>>
    /\ UNCHANGED not_bash_vars

\* Lines 62-68, 33-39: readline returns a line and the callback of the stream
\* decodes and appends it; a UnicodeDecodeError leaves the invocation.
ReadLine ==
    /\ bash_pc = "reading" /\ ~cancel_bash
    /\ \E s \in Streams :
          /\ ~reader_done[s]
          /\ pipe[s] # << >>
          /\ pipe' = [pipe EXCEPT ![s] = Tail(@)]
          /\ IF decodable(Head(pipe[s]))
             THEN /\ output_lines' = IF s = "stdout"
                                     THEN stdout_cb(output_lines, Head(pipe[s]))
                                     ELSE stderr_cb(output_lines, Head(pipe[s]))
                  /\ origin' = Append(origin, s)
                  /\ UNCHANGED <<bash_pc, bash_exc, process>>
             ELSE /\ bash_pc' = "raised"
                  /\ bash_exc' = "UnicodeDecodeError"
                  /\ process' = on_exception("UnicodeDecodeError", process)
                  /\ UNCHANGED <<output_lines, origin>>
    /\ UNCHANGED <<timeout, returncode, writer_open, reader_done, written, cancel_bash,
                   bash_ret, expired>>
    /\ UNCHANGED not_bash_vars

\* Lines 64-68, 76-83: readline returns the empty bytes at end of file and the
\* reader returns; when both readers have returned, process.wait() is awaited.
ReadEof ==
    /\ bash_pc = "reading" /\ ~cancel_bash
    /\ \E s \in Streams :
          /\ ~reader_done[s]
          /\ pipe[s] = << >> /\ ~writer_open[s]
          /\ reader_done' = [reader_done EXCEPT ![s] = TRUE]
          /\ bash_pc' = IF \A o \in Streams \ {s} : reader_done[o] THEN "waiting" ELSE "reading"
    /\ UNCHANGED <<timeout, process, returncode, pipe, writer_open, output_lines, written,
                   cancel_bash, bash_exc, origin, bash_ret, expired>>
    /\ UNCHANGED not_bash_vars

\* Lines 83, 42-51: process.wait() returns the exit status of the child and
\* the tool returns its outcome.
WaitReturns ==
    /\ bash_pc = "waiting" /\ ~cancel_bash
    /\ process = "exited"
    /\ bash_ret' = exit_result(returncode, output_lines)
    /\ bash_pc' = "returned"
    /\ UNCHANGED <<timeout, process, returncode, pipe, writer_open, reader_done,
                   output_lines, written, cancel_bash, bash_exc, origin, expired>>
    /\ UNCHANGED not_bash_vars

\* Lines 76-82, 84-86, 52-58: the timer of wait_for expires while the readers
\* are awaited; TimeoutError is raised, the child is killed and the tool
\* returns the timeout outcome.
TimeoutExpires ==
    /\ bash_pc = "reading" /\ ~cancel_bash
    /\ bash_exc' = "TimeoutError"
    /\ process' = on_exception("TimeoutError", process)
    /\ bash_ret' = timeout_result(output_lines, timeout)
    /\ bash_pc' = "returned"
    /\ expired' = TRUE
    /\ UNCHANGED <<timeout, returncode, pipe, writer_open, reader_done, output_lines,
                   written, cancel_bash, origin>>
    /\ UNCHANGED not_bash_vars

\* Line 83: the timeout elapses while process.wait() is awaited.  wait_for
\* has returned at line 82 and its timer is gone, so nothing happens to the
\* invocation: it stays suspended until the child exits.
TimeoutElapses ==
    /\ bash_pc = "waiting" /\ ~expired
    /\ expired' = TRUE
    /\ UNCHANGED <<bash_pc, timeout, process, returncode, pipe, writer_open, reader_done,
                   output_lines, written, cancel_bash, bash_exc, origin, bash_ret>>
    /\ UNCHANGED not_bash_vars

\* The task running the invocation is cancelled while it is suspended.
CancelBash ==
    /\ bash_pc \in {"reading", "waiting"} /\ ~cancel_bash
    /\ cancel_bash' = TRUE
    /\ UNCHANGED <<bash_pc, timeout, process, returncode, pipe, writer_open, reader_done,
                   output_lines, written, bash_exc, origin, bash_ret, expired>>
    /\ UNCHANGED not_bash_vars

\* Lines 75-86, 41-58: the suspended invocation is resumed with
\* CancelledError, which neither except clause handles.
CancelDelivered ==
    /\ bash_pc \in {"reading", "waiting"} /\ cancel_bash
    /\ bash_exc' = "CancelledError"
    /\ process' = on_exception("CancelledError", process)
    /\ bash_pc' = "raised"
    /\ UNCHANGED <<timeout, returncode, pipe, writer_open, reader_done, output_lines,
                   written, cancel_bash, origin, bash_ret, expired>>
    /\ UNCHANGED not_bash_vars

NextBash ==
    \/ BashCall
    \/ ChildWrite
    \/ ChildClose
    \/ ChildExit
    \/ ReadLine
    \/ ReadEof
    \/ WaitReturns
    \/ TimeoutExpires
    \/ TimeoutElapses
    \/ CancelBash
    \/ CancelDelivered

SpecBash == InitBash /\ [][NextBash]_vars

(***************************************************************************)
(* Properties of the Bash tool.                                            *)
(***************************************************************************)
\* The k-th line the callbacks appended, found in what the child wrote.
CapturedLine(k) ==
    written[origin[k]][Cardinality({j \in 1..k : origin[j] = origin[k]})]

\* The characters of the captured lines, in the order they were captured.
RECURSIVE CapturedText(_)
CapturedText(k) ==
    IF k = 0 THEN << >>
    ELSE CapturedText(k - 1) \o [i \in DOMAIN CapturedLine(k) |-> chr(CapturedLine(k)[i])]

\* C12: once the timeout has expired the child is not running, the tool has
\* returned an Error whose output is exactly the lines captured before the
\* expiry, in the order they were captured, whose message is "Command killed
\* by timeout (Ts)" and whose brief is "Killed by timeout (Ts)" for the timeout
\* T of the call.
C12_Timeout ==
    bash_exc = "TimeoutError" =>
        /\ bash_pc = "returned"
        /\ process # "running"
        /\ bash_ret.kind = "error"
        /\ bash_ret.output = StrOutput(CapturedText(Len(origin)))
        /\ Len(output_lines) = Len(origin)
        /\ bash_ret.message = <<"Command killed by timeout (">> \o str(timeout) \o <<"s)">>
        /\ bash_ret.brief = <<"Killed by timeout (">> \o str(timeout) \o <<"s)">>
        /\ timeout = DefaultTimeout =>
              /\ bash_ret.message = <<"Command killed by timeout (", "6", "0", "s)">>
              /\ bash_ret.brief = <<"Killed by timeout (", "6", "0", "s)">>

C12_Witness ==
    /\ bash_exc = "TimeoutError"
    /\ process = "killed"
    /\ timeout = DefaultTimeout
    /\ bash_ret.output.text = <<"a", "\n">>
    /\ pipe["stderr"] # << >>

\* C13: there is no state in which the invocation has been ended by the
\* cancellation of its task and the child is still running.
C13_KilledOnCancel == ~(bash_exc = "CancelledError" /\ process = "running")

CapturedFrom(s) == Cardinality({k \in DOMAIN origin : origin[k] = s})

C16_TimeoutBounded ==
    /\ parameters.default = 60
    /\ bash_pc # "idle" =>
          /\ validates(expected_parameters, timeout)
          /\ timeout \in SchemaMinimum..SchemaMaximum

\* C29: the timeout bounds the whole invocation: there is no state in which
\* the timeout has elapsed and the tool is still suspended waiting for a child
\* that is running.
C29_TimeoutBoundsCall ==
    ~(expired /\ bash_pc = "waiting" /\ process = "running")

(***************************************************************************)
(* Calls of tool_result_to_messages on the tool results a run may hand it. *)
(***************************************************************************)
\* The content parts a tool may return.
Parts == {TextPart(<<"t1">>), TextPart(<<"t2">>), TextPart(NoText), ImagePart(<<"img">>)}

RECURSIVE PartSeqs(_)
PartSeqs(n) ==
    IF n = 0 THEN {<< >>}
    ELSE PartSeqs(n - 1) \cup {Append(q, p) : q \in PartSeqs(n - 1), p \in Parts}

\* ToolOk.output: a str, one content part or a sequence of content parts.
OkOutputs ==
    {StrOutput(NoText), StrOutput(<<"hi">>)}
        \cup {PartOutput(p) : p \in Parts}
        \cup {SeqOutput(q) : q \in PartSeqs(MaxParts)}

\* ToolOk with and without a message; ToolError, whose message is never
\* empty (line 12 asserts it).
ToolOutcomes ==
    {ToolOk(o, m) : o \in OkOutputs, m \in {NoText, <<"done">>}}
        \cup {ToolError(o, m, <<"brief">>) :
                 o \in {NoText, <<"oops">>},
                 m \in {<<"failed">>, <<"Command failed with exit code: ", "2">>}}

ToolResults == [tool_call_id : 1..MaxCalls, result : ToolOutcomes]

InitTranslate == RunIdle /\ BashIdle /\ TranslateIdle /\ ShellCommand /\ AppIdle

\* tool_result_to_messages is called with a tool result.
TranslateCall ==
    /\ tr_pc \in {"idle", "returned"}
    /\ tr_input' \in ToolResults
    /\ tr_output' = << >>
    /\ tr_pc' = "called"
    /\ UNCHANGED tr_seen
    /\ UNCHANGED not_tr_vars

\* tool_result_to_messages returns the list of messages.
TranslateReturn ==
    /\ tr_pc = "called"
    /\ tr_output' = tool_result_to_messages(tr_input)
    /\ tr_pc' = "returned"
    /\ UNCHANGED <<tr_input, tr_seen>>
    /\ UNCHANGED not_tr_vars

NextTranslate ==
    \/ TranslateCall
    \/ TranslateReturn

SpecTranslate == InitTranslate /\ [][NextTranslate]_vars

(***************************************************************************)
(* Properties of tool_result_to_messages.                                  *)
(***************************************************************************)
\* The content parts of a ToolOk output: a str is one text part, or none
\* when it is empty.
OutputParts(output) ==
    IF output.form = "str"
    THEN IF output.text = NoText THEN << >> ELSE <<[kind |-> "text", text |-> output.text]>>
    ELSE output.parts

IsText(part) == part.kind = "text"

IsNonText(part) == part.kind # "text"

\* The human message of an outcome as a system-tagged text part.
Tagged(message) == [kind |-> "text", text |-> <<"<system>">> \o message \o <<"</system>">>]

MessagePart(message) == IF message = NoText THEN << >> ELSE <<Tagged(message)>>

\* C17: a call that has returned has returned one or two messages, never an
\* empty list, and the first message has role tool and carries the
\* tool_call_id of the translated tool result.
C17_NeverEmpty ==
    tr_pc = "returned" =>
        /\ Len(tr_output) \in {1, 2}
        /\ tr_output[1].role = "tool"
        /\ tr_output[1].tool_call_id = tr_input.tool_call_id

C17_Witness ==
    /\ tr_pc = "returned"
    /\ tr_input = [tool_call_id |-> 2, result |-> ToolOk(SeqOutput(<< >>), NoText)]
    /\ Len(tr_output) = 1

\* C18: for an Error outcome exactly one message is returned, of role tool:
\* its content is the error's message wrapped in <system>...</system>, followed
\* by one text part with the raw output exactly when the output is not empty.
C18_ErrorPath ==
    (tr_pc = "returned" /\ tr_input.result.kind = "error") =>
        tr_output =
            <<[role |-> "tool",
               content |-> <<Tagged(tr_input.result.message)>> \o
                           (IF tr_input.result.output.text # NoText
                            THEN <<[kind |-> "text", text |-> tr_input.result.output.text]>>
                            ELSE << >>),
               tool_call_id |-> tr_input.tool_call_id]>>

C18_Witness ==
    /\ tr_pc = "returned"
    /\ tr_input.result.kind = "error"
    /\ tr_output[1].content =
           <<[kind |-> "text", text |-> <<"<system>", "failed", "</system>">>],
             [kind |-> "text", text |-> <<"oops">>]>>

\* C19: for an Ok outcome whose output has only text parts exactly one
\* message is returned, of role tool: its content is the system-tagged human
\* message, when one was supplied, and then the text parts of the output in
\* their order; when that is nothing at all, the content is the one part
\* <system>Tool output is empty.</system>.
C19_TextOnly ==
    (/\ tr_pc = "returned"
     /\ tr_input.result.kind = "ok"
     /\ SelectSeq(OutputParts(tr_input.result.output), IsNonText) = << >>) =>
        LET parts == MessagePart(tr_input.result.message) \o OutputParts(tr_input.result.output)
        IN tr_output =
               <<[role |-> "tool",
                  content |-> IF parts = << >>
                              THEN <<Tagged(<<"Tool output is empty.">>)>>
                              ELSE parts,
                  tool_call_id |-> tr_input.tool_call_id]>>

C19_Witness ==
    /\ tr_pc = "returned"
    /\ tr_input.result.kind = "ok"
    /\ tr_output[1].content =
           <<[kind |-> "text", text |-> <<"<system>", "done", "</system>">>],
             [kind |-> "text", text |-> <<"t2">>],
             [kind |-> "text", text |-> <<"t1">>]>>

\* C20: for an Ok outcome with at least one non-text output part exactly two
\* messages are returned.  The first has role tool and holds the system-tagged
\* human message, when one was supplied, all text parts of the output in their
\* order and then the fixed notice; the second has role user and holds exactly
\* the non-text parts in their order.  Every output part is in exactly one of
\* the two.
C20_NonText ==
    (/\ tr_pc = "returned"
     /\ tr_input.result.kind = "ok"
     /\ SelectSeq(OutputParts(tr_input.result.output), IsNonText) # << >>) =>
        /\ Len(tr_output) = 2
        /\ tr_output[1] =
               [role |-> "tool",
                content |-> MessagePart(tr_input.result.message) \o
                            SelectSeq(OutputParts(tr_input.result.output), IsText) \o
                            <<Tagged(<<"Tool output contains non-text parts. Non-text parts are sent as a user message below.">>)>>,
                tool_call_id |-> tr_input.tool_call_id]
        /\ tr_output[2].role = "user"
        /\ tr_output[2].content = SelectSeq(OutputParts(tr_input.result.output), IsNonText)
        /\ \A p \in {tr_input.result.output.parts[i] : i \in DOMAIN tr_input.result.output.parts} :
              LET inTool == \E i \in DOMAIN tr_output[1].content : tr_output[1].content[i] = p
                  inUser == \E i \in DOMAIN tr_output[2].content : tr_output[2].content[i] = p
              IN inTool # inUser

C20_Witness ==
    /\ tr_pc = "returned"
    /\ tr_input.result = ToolOk(SeqOutput(<<ImagePart(<<"img">>), TextPart(<<"t1">>)>>), <<"done">>)
    /\ Len(tr_output) = 2
    /\ Len(tr_output[1].content) = 3
    /\ tr_output[2].content = <<[kind |-> "image", text |-> <<"img">>]>>

\* The sentinel of an empty tool output, as a system-tagged text part.
Sentinel == [kind |-> "text", text |-> <<"<system>", "Tool output is empty.", "</system>">>]

\* An Ok outcome without a human message whose output is the empty string or
\* the empty list of parts.
EmptyOk(outcome) ==
    /\ outcome.kind = "ok"
    /\ outcome.message = NoText
    /\ \/ outcome.output.form = "str" /\ outcome.output.text = NoText
       \/ outcome.output.form = "seq" /\ outcome.output.parts = << >>

HasSentinel(messages) ==
    \E k \in DOMAIN messages : \E i \in DOMAIN messages[k].content :
        messages[k].content[i] = Sentinel

\* C21: an Ok outcome with empty output (the empty string or the empty list of
\* parts) and no human message translates to exactly one tool-role message
\* whose only content part is <system>Tool output is empty.</system>, and no
\* other outcome has that part in any of its messages.
C21_Sentinel ==
    tr_pc = "returned" =>
        /\ EmptyOk(tr_input.result) =>
              tr_output = <<[role |-> "tool", content |-> <<Sentinel>>,
                             tool_call_id |-> tr_input.tool_call_id]>>
        /\ HasSentinel(tr_output) => EmptyOk(tr_input.result)

C21_Witness ==
    /\ tr_pc = "returned"
    /\ tr_input.result = ToolOk(SeqOutput(<< >>), NoText)
    /\ tr_output[1].content = <<Sentinel>>

(***************************************************************************)
(* Repeated calls of tool_result_to_messages: one earlier call is kept in  *)
(* tr_seen, with whether a call with another input returned after it.     *)
(***************************************************************************)
PureInputs ==
    {r \in ToolResults : r.tool_call_id = 1 /\ Len(r.result.output.parts) <= MaxPureParts}

\* tool_result_to_messages is called again; the call that has just returned
\* may be the one that is kept.
PureCall ==
    /\ tr_pc \in {"idle", "returned"}
    /\ tr_input' \in PureInputs
    /\ tr_output' = << >>
    /\ tr_pc' = "called"
    /\ \/ UNCHANGED tr_seen
       \/ /\ tr_pc = "returned" /\ tr_seen = NoSeen
          /\ tr_seen' = [input |-> tr_input, output |-> tr_output, between |-> FALSE]
    /\ UNCHANGED not_tr_vars

\* tool_result_to_messages returns the list of messages.
PureReturn ==
    /\ tr_pc = "called"
    /\ tr_output' = tool_result_to_messages(tr_input)
    /\ tr_pc' = "returned"
    /\ tr_seen' = IF tr_seen # NoSeen /\ tr_seen.input # tr_input
                  THEN [tr_seen EXCEPT !.between = TRUE] ELSE tr_seen
    /\ UNCHANGED tr_input
    /\ UNCHANGED not_tr_vars

NextPure ==
    \/ PureCall
    \/ PureReturn

SpecPure == InitTranslate /\ [][NextPure]_vars

C24_NeverRaises ==
    /\ vis_pc # "raised"
    /\ Len(consumed) >= 1 => consumed[1].type = "RunBegin"
    /\ Len(consumed) >= 2 => consumed[2].type = "StepBegin"
    /\ \A i \in DOMAIN consumed :
          i > 2 => consumed[i].type \in {"ContentPart", "ToolCall", "ToolCallPart", "ToolResult",
                                        "ContextUsageUpdate", "StepBegin", "RunEnd",
                                        "StepInterrupted"}

C24_Witness ==
    /\ vis_pc = "stopped"
    /\ Positions(consumed, {"ContextUsageUpdate"}) # {}
    /\ Positions(consumed, {"ContentPart"}) = {3}
    /\ Positions(consumed, {"StepInterrupted"}) # {}

\* C25: put_nowait never blocks and never fails.  The queue is never full,
\* however many events are unread, so each step of the run that puts events
\* can be taken whatever the consumer has or has not consumed: the completion
\* of the model turn, the return of a tool and the interruption of the run.
C25_PutNeverBlocks ==
    /\ ~full(queue)
    /\ (pc = "model" /\ ~cancel_requested) => ENABLED ModelTurnComplete
    /\ (pc = "tool" /\ ~cancel_requested) => ENABLED ToolReturn
    /\ (pc \in Suspended /\ cancel_requested) => ENABLED Interrupt

C25_Witness ==
    /\ pc = "done"
    /\ consumed = << >>
    /\ Len(queue) >= 12
    /\ queue = emitted

(***************************************************************************)
(* kimi_cli/ui/shell/__init__.py: the interactive loop of ShellApp.run.    *)
(* session.prompt() returns a line of input or raises KeyboardInterrupt or *)
(* EOFError; _soul_run is an ordinary call, so the loop is at the next     *)
(* prompt only once the call has returned.                                 *)
(***************************************************************************)
PromptResults ==
    {Raised("KeyboardInterrupt"), Raised("EOFError"), Typed(<< >>), Typed(Blank),
     Typed(Exit), Typed(Slash \o Quit), Typed(Slash \o Help), Typed(Slash),
     Typed(Slash \o Exit \o Blank \o <<"now">>),
     Typed(Blank \o Slash \o Quit \o Blank \o <<"x">>),
     Typed(Slash \o <<"nope">>), Typed(Hello \o Blank)}

\* The results after which the loop goes on or ends by itself.
PlainResults ==
    {Raised("KeyboardInterrupt"), Raised("EOFError"), Typed(<< >>), Typed(Exit),
     Typed(Slash \o Help), Typed(Hello \o Blank)}

\* Line 71: user_input = str(session.prompt()).strip()
user_input_of(result) == strip(result.text)

\* What the loop does with the result of one prompt (lines 69-97).
Dispatch(result) ==
    CASE result.exc = "KeyboardInterrupt" -> "continue"
      [] result.exc = "EOFError" -> "break"
      [] user_input_of(result) = << >> -> "continue"
      [] user_input_of(result) \in {Exit, Quit, Slash \o Exit, Slash \o Quit} -> "break"
      [] startswith(user_input_of(result), Slash) -> "meta_command"
      [] OTHER -> "soul_run"

\* _run_meta_command, lines 174-187: the command found for the first word of
\* command_str, whose func is then called; NoMetaCommand when there is none.
_run_meta_command(by_name, command_str) == get_meta_command(by_name, split(command_str)[1])

\* A shell that takes the next input while a run is still going on.
ShellAtPromptAnyTime == shell_pc # "exited"

\* The loop is at session.prompt(): at its first iteration, or after the
\* _soul_run call of the previous iteration has returned.
ShellAtPrompt ==
    \/ shell_pc = "prompt"
    \/ shell_pc = "soul_run" /\ soul_run_ret.returned

InitShell ==
    /\ RunIdle /\ BashIdle /\ TranslateIdle /\ AppIdle /\ MetaImported
    /\ shell_pc = "prompt"
    /\ runs = 0
    /\ run_input = << >>

\* One iteration of the loop up to the call of _soul_run.  An exception
\* raised by the function of a meta command leaves the loop and ShellApp.run.
ShellPromptOn(results) ==
    /\ ShellAtPrompt
    /\ \E result \in results :
          LET todo == Dispatch(result)
          IN CASE todo = "break" ->
                      /\ shell_pc' = "exited"
                      /\ UNCHANGED <<runs, run_input, run_vars>>
               [] todo = "meta_command" ->
                      LET cmd == _run_meta_command(_meta_command_aliases,
                                                   Tail(user_input_of(result)))
                      IN /\ shell_pc' = IF cmd.func.body = "NotImplementedError"
                                        THEN "raised"
                                        ELSE "prompt"
                         /\ UNCHANGED <<runs, run_input, run_vars>>
               [] todo = "soul_run" ->
                      /\ runs < MaxRuns
                      /\ shell_pc' = "soul_run"
                      /\ runs' = runs + 1
                      /\ run_input' = user_input_of(result)
                      /\ pc' = "idle"
                      /\ vis_pc' = "idle"
                      /\ failure' = NoFailure
                      /\ soul_run_ret' = NotReturned
                      /\ UNCHANGED <<step, max_steps, cancel_requested, tool_calls, pending,
                                     inflight, next_id, fragments, context, step_context,
                                     queue, emitted, consumed, model_calls>>
               [] OTHER ->
                      /\ shell_pc' = "prompt"
                      /\ UNCHANGED <<runs, run_input, run_vars>>
    /\ UNCHANGED <<bash_vars, tr_vars, app_vars, meta_vars>>

ShellPrompt == ShellPromptOn(PromptResults)

ShellPromptPlain == ShellPromptOn(PlainResults)

\* The steps of the shell and of the runs it starts, for the inputs after
\* which the loop goes on.  The streaming of content and of tool call argument
\* fragments changes neither the context nor the order of the runs, and is
\* left to Spec.
NextShell ==
    \/ ShellPromptPlain
    \/ RunStart
    \/ ModelToolCall
    \/ ModelTurnComplete
    \/ ToolReturn
    \/ ProviderError
    \/ Cancel
    \/ Interrupt
    \/ VisGet
    \/ SoulRunReturn

SpecShell == InitShell /\ [][NextShell]_vars

\* The shell with everything that may be typed at its prompt.
NextMeta ==
    \/ ShellPrompt
    \/ RunStart
    \/ ModelToolCall
    \/ ModelTurnComplete
    \/ ToolReturn
    \/ ProviderError
    \/ Cancel
    \/ Interrupt
    \/ VisGet
    \/ SoulRunReturn

SpecMeta == InitShell /\ [][NextMeta]_vars

\* C26: a run is started only when no run is in flight: the shell calls
\* _soul_run for the first time, or the previous _soul_run has returned and its
\* run has reached Done, Interrupted or Failed with no tool invocation left
\* running; the run task is active only inside a _soul_run call, and the new
\* run appends to the context the previous one left behind.
C26_OneRunInFlight ==
    [][/\ runs' # runs =>
             /\ runs' = runs + 1
             /\ context' = context
             /\ \/ runs = 0
                \/ pc \in Ended /\ soul_run_ret.returned /\ inflight = {}
       /\ pc' \in Suspended => (shell_pc' = "soul_run" /\ ~soul_run_ret'.returned)]_vars

C26_Witness ==
    /\ runs = 2
    /\ pc = "tool"
    /\ Len(context) >= 4
    /\ shell_pc = "soul_run"

\* The position in seq at which the step that begins at position i is over: the
\* next StepBegin or RunEnd, or 0 while there is none.
StepOver(seq, i) ==
    LET at == {j \in Positions(seq, {"StepBegin", "RunEnd"}) : j > i}
    IN IF at = {} THEN 0 ELSE CHOOSE j \in at : \A k \in at : j <= k

UsageWithin(seq, i, j) ==
    \E k \in Positions(seq, {"ContextUsageUpdate"}) : i < k /\ k < j

\* C27: every step that runs to its end has at least one ContextUsageUpdate
\* between its StepBegin and the next StepBegin or RunEnd; the step after
\* which the step bound stops the run has one after its StepBegin as well.
C27_UsagePerStep ==
    /\ \A i \in Positions(emitted, {"StepBegin"}) :
          StepOver(emitted, i) # 0 => UsageWithin(emitted, i, StepOver(emitted, i))
    /\ (pc = "failed" /\ failure.exc = "MaxStepsReached") =>
          UsageWithin(emitted, LastStepBegin(emitted), Len(emitted) + 1)

C27_Witness ==
    /\ pc = "done"
    /\ Cardinality(Positions(emitted, {"StepBegin"})) = 2
    /\ Cardinality(Positions(emitted, {"ContextUsageUpdate"})) = 2
    /\ Cardinality(Positions(emitted, {"ToolResult"})) >= 1

\* C30: however a run ends (Done, Interrupted, MaxStepsReached or a provider
\* failure), its consumer eventually is no longer suspended at a get: it has
\* left its loop on the terminal event, or it was cancelled when asyncio.run
\* tore the failed run down.
C30_ConsumerStops ==
    (pc \in Ended) ~> (vis_pc \notin VisWaiting)

C30_Witness ==
    /\ pc = "failed"
    /\ failure.exc = "MaxStepsReached"
    /\ vis_pc = "cancelled"
    /\ soul_run_ret.returned
    /\ queue # << >>

\* The StepBegin events of seq up to position p.
StepBeginsUpTo(seq, p) == {q \in Positions(seq, {"StepBegin"}) : q <= p}

\* The position of the StepBegin before the one at position p.
StepBeginBefore(seq, p) ==
    CHOOSE q \in StepBeginsUpTo(seq, p - 1) : \A r \in StepBeginsUpTo(seq, p - 1) : r <= q

\* Between positions i and j of seq the model turn has completed and every
\* tool call announced there has its result.
StepFinished(seq, i, j) ==
    /\ UsageWithin(seq, i, j)
    /\ \A c \in Positions(seq, {"ToolCall"}) :
          (i < c /\ c < j) =>
              \E r \in Positions(seq, {"ToolResult"}) : c < r /\ r < j /\ seq[r].n = seq[c].n

StepsNumbered(seq) ==
    \A p \in Positions(seq, {"StepBegin"}) :
        /\ seq[p].n = Cardinality(StepBeginsUpTo(seq, p))
        /\ seq[p].n <= max_steps
        /\ seq[p].n > 1 => StepFinished(seq, StepBeginBefore(seq, p), p)

\* C31: the StepBegin events of a run carry 1, 2, 3, ... in this order, none
\* above max_steps; StepBegin(n+1) comes only after the model turn of step n
\* has completed, every tool call of step n has its result and none is
\* pending or in flight; once the run is Done, Interrupted or Failed, its
\* state, its step counter and its event stream stay as they are.
C31_StepNumbering ==
    [][/\ emitted' # emitted =>
             /\ StepsNumbered(emitted')
             /\ Last(emitted').type = "StepBegin" =>
                   /\ Last(emitted').n = step'
                   /\ pending' = << >> /\ inflight' = {}
                   /\ pc' = "model"
       /\ pc \in Ended => (pc' = pc /\ step' = step /\ emitted' = emitted)]_vars

C31_Witness ==
    /\ pc = "failed" /\ failure.exc = "MaxStepsReached"
    /\ max_steps = 2
    /\ step = 3
    /\ Cardinality(Positions(emitted, {"StepBegin"})) = 2
    /\ soul_run_ret.returned

(***************************************************************************)
(* kimi_cli/__init__.py: one invocation of kimi (the command line) or of   *)
(* kimi_run, with the UI app it runs.                                      *)
(***************************************************************************)
ClickUIs == {"shell", "print"}

InitApp ==
    /\ RunIdle /\ BashIdle /\ TranslateIdle /\ ShellCommand
    /\ entry \in {"kimi", "kimi_run"}
    /\ app_pc = entry
    /\ ui \in UIs
    /\ command \in Commands
    /\ work_dir \in WorkDirs
    /\ cwd \in Dirs
    /\ original_cwd = NoDir
    /\ app_ret = NoAppReturn
    /\ app_exc = "none"
    /\ exit_status = << >>

app_frame == <<pc, step, max_steps, cancel_requested, tool_calls, pending, inflight, next_id,
               fragments, context, step_context, queue, emitted, consumed, vis_pc,
               model_calls, bash_vars, tr_vars, shell_vars, meta_vars>>

\* kimi, lines 76-107, 128, 181-194: click accepts the options, --work-dir
\* is made absolute, the print UI is refused without a command and kimi_run
\* is called.
Kimi ==
    /\ app_pc = "kimi"
    /\ IF ui \notin ClickUIs \/ absolute(work_dir, cwd) \notin Dirs
       THEN /\ app_exc' = "UsageError"
            /\ app_pc' = "raised"
            /\ UNCHANGED work_dir
       ELSE /\ work_dir' = absolute(work_dir, cwd)
            /\ IF ui = "print" /\ ~command.given
               THEN app_exc' = "BadOptionUsage" /\ app_pc' = "raised"
               ELSE app_exc' = app_exc /\ app_pc' = "kimi_run"
    /\ UNCHANGED <<entry, ui, command, cwd, original_cwd, app_ret, exit_status, failure,
                   soul_run_ret>>
    /\ UNCHANGED app_frame

\* kimi_run, lines 229-255: the agent is loaded, the command is stripped and
\* refused when empty, the working directory is remembered and changed.
KimiRunEnter ==
    /\ app_pc = "kimi_run"
    /\ \E agent_loaded \in BOOLEAN :
          IF ~agent_loaded \/ (command.given /\ strip(command.text) = << >>)
          THEN /\ app_exc' = "BadParameter"
               /\ app_pc' = "raised"
               /\ UNCHANGED <<command, cwd, original_cwd>>
          ELSE /\ command' = IF command.given THEN Command(strip(command.text)) ELSE command
               /\ original_cwd' = cwd
               /\ IF chdir(work_dir, cwd) \in Dirs
                  THEN /\ cwd' = chdir(work_dir, cwd)
                       /\ app_pc' = "try"
                       /\ UNCHANGED app_exc
                  ELSE /\ app_exc' = "FileNotFoundError"
                       /\ app_pc' = "raised"
                       /\ UNCHANGED cwd
    /\ UNCHANGED <<entry, ui, work_dir, app_ret, exit_status, failure, soul_run_ret>>
    /\ UNCHANGED app_frame

\* kimi_run, lines 257-270: the UI app is built; an unknown UI mode raises.
AppConstruct ==
    /\ app_pc = "try"
    /\ IF ui \in {"shell", "print"}
       THEN app_pc' = "app_run" /\ UNCHANGED app_exc
       ELSE app_pc' = "finally" /\ app_exc' = "BadParameter"
    /\ UNCHANGED <<entry, ui, command, work_dir, cwd, original_cwd, app_ret, exit_status,
                   failure, soul_run_ret>>
    /\ UNCHANGED app_frame

\* ShellApp.run with a command, shell lines 37-40 and 101-118: the value of
\* _soul_run is returned, whatever asyncio.run returned or raised.
ShellAppRunCommand ==
    /\ app_pc = "app_run" /\ ui = "shell" /\ command.given
    /\ ~soul_run_ret.returned
    /\ \E exc \in SoulRunOutcomes :
          /\ failure' = exc
          /\ soul_run_ret' = _soul_run(exc)
          /\ app_ret' = AppReturn(_soul_run(exc).value)
    /\ app_pc' = "finally"
    /\ UNCHANGED <<entry, ui, command, work_dir, cwd, original_cwd, app_exc, exit_status>>
    /\ UNCHANGED app_frame

\* ShellApp.run without a command, shell lines 42-99: the prompt loop is left
\* by `return True`, or by an exception of the prompt or of a meta command.
ShellAppRunInteractive ==
    /\ app_pc = "app_run" /\ ui = "shell" /\ ~command.given
    /\ \/ app_ret' = AppReturn(TRUE) /\ UNCHANGED app_exc
       \/ app_exc' = "RuntimeError" /\ UNCHANGED app_ret
    /\ app_pc' = "finally"
    /\ UNCHANGED <<entry, ui, command, work_dir, cwd, original_cwd, exit_status, failure,
                   soul_run_ret>>
    /\ UNCHANGED app_frame

\* PrintApp.run: it returns a bool or raises.
PrintAppRun ==
    /\ app_pc = "app_run" /\ ui = "print"
    /\ \/ \E value \in BOOLEAN : app_ret' = AppReturn(value) /\ UNCHANGED app_exc
       \/ app_exc' = "RuntimeError" /\ UNCHANGED app_ret
    /\ app_pc' = "finally"
    /\ UNCHANGED <<entry, ui, command, work_dir, cwd, original_cwd, exit_status, failure,
                   soul_run_ret>>
    /\ UNCHANGED app_frame

\* kimi_run without its finally clause: the value is returned or the exception
\* goes on with the working directory left at work_dir.
KimiRunNoRestore ==
    /\ app_pc = "finally"
    /\ app_pc' = IF app_exc = "none" THEN "returned" ELSE "raised"
    /\ UNCHANGED <<entry, ui, command, work_dir, cwd, original_cwd, app_ret, app_exc,
                   exit_status, failure, soul_run_ret>>
    /\ UNCHANGED app_frame

\* kimi_run, lines 272-274: the finally clause restores the working directory;
\* then the value is returned or the exception goes on.
KimiRunFinally ==
    /\ app_pc = "finally"
    /\ cwd' = chdir(original_cwd, cwd)
    /\ app_pc' = IF app_exc = "none" THEN "returned" ELSE "raised"
    /\ UNCHANGED <<entry, ui, command, work_dir, original_cwd, app_ret, app_exc, exit_status,
                   failure, soul_run_ret>>
    /\ UNCHANGED app_frame

\* kimi, lines 195-196, and click: sys.exit(1) when kimi_run returned False,
\* status 0 when it returned True, status 2 for a usage error of click and
\* status 1 for any other exception.
KimiExit ==
    /\ entry = "kimi"
    /\ app_pc \in {"returned", "raised"}
    /\ exit_status' =
          IF app_pc = "returned"
          THEN IF app_ret.value THEN <<0>> ELSE <<1>>
          ELSE IF app_exc \in {"UsageError", "BadOptionUsage", "BadParameter"}
               THEN <<2>>
               ELSE <<1>>
    /\ app_pc' = "exited"
    /\ UNCHANGED <<entry, ui, command, work_dir, cwd, original_cwd, app_ret, app_exc, failure,
                   soul_run_ret>>
    /\ UNCHANGED app_frame

NextApp ==
    \/ Kimi
    \/ KimiRunEnter
    \/ AppConstruct
    \/ ShellAppRunCommand
    \/ ShellAppRunInteractive
    \/ PrintAppRun
    \/ KimiRunFinally
    \/ KimiExit

SpecApp == InitApp /\ [][NextApp]_vars

\* C32: _soul_run returns and lets no exception through; its value is True
\* exactly when asyncio.run(soul.run(...)) returned normally, and False for a
\* provider error, MaxStepsReached, KeyboardInterrupt and every other
\* exception; with a command this value is what ShellApp.run and kimi_run
\* return, and the process exits with status 1 when it is False and with
\* status 0 when it is True.
C32_SoulRunValue ==
    /\ soul_run_ret.returned =>
          /\ soul_run_ret.value <=> failure = NoFailure
          /\ failure.exc \in {"ChatProviderError", "MaxStepsReached", "KeyboardInterrupt",
                               "CancelledError", "SystemExit", "RuntimeError"}
                => ~soul_run_ret.value
          /\ app_exc = "none"
          /\ app_ret = AppReturn(soul_run_ret.value)
    /\ (ui = "shell" /\ command.given /\ app_pc \in {"finally", "returned", "exited"}
          /\ app_exc = "none") => soul_run_ret.returned
    /\ (soul_run_ret.returned /\ app_pc = "exited") =>
          /\ exit_status = <<1>> <=> ~soul_run_ret.value
          /\ exit_status = <<0>> <=> soul_run_ret.value

C32_Witness ==
    /\ app_pc = "exited"
    /\ ui = "shell" /\ command = Command(<<"hi">>)
    /\ failure.exc = "KeyboardInterrupt"
    /\ exit_status = <<1>>

\* C33: the shell never calls the registered exit function, so that its loop
\* is never left by the NotImplementedError of that function, whatever is typed;
\* an input that starts with "/" is never the input of a run.
C33_ExitNeverInvoked ==
    /\ shell_pc # "raised"
    /\ ~startswith(run_input, Slash)

(***************************************************************************)
(* kimi_cli/ui/tui/metacmd.py: the registrations of meta_command.  The     *)
(* registry is empty before the module body runs; each use of the          *)
(* decorator is one call of _register.                                     *)
(***************************************************************************)
Assist == <<"assist">>

StartFunc == [__name__ |-> <<"start">>, body |-> "print"]

ByeFunc == [__name__ |-> <<"bye">>, body |-> "print"]

Decoration(f, name, aliases) == [f |-> f, name |-> name, aliases |-> aliases]

\* The decorations of lines 136 and 143, those of the docstring of
\* meta_command (lines 70-77), and one whose alias is the name of exit.
Decorations ==
    {Decoration(ExitFunc, NoName, <<Quit>>),
     Decoration(HelpFunc, NoName, <<<<"h">>, <<"?">>>>),
     Decoration(HelpFunc, NoName, << >>),
     Decoration(StartFunc, <<"run">>, << >>),
     Decoration(HelpFunc, NoName, <<<<"h">>, <<"?">>, Assist>>),
     Decoration(ByeFunc, NoName, <<Exit>>)}

Range(s) == {s[i] : i \in DOMAIN s}

\* The names a lookup may ask for: every name and alias a decoration gives, and
\* one that none gives.
LookupNames ==
    UNION {{registered(d.f, d.name, d.aliases).name} \cup Range(d.aliases)
               : d \in Decorations} \cup {<<"nope">>}

InitRegistry ==
    /\ RunIdle /\ BashIdle /\ TranslateIdle /\ AppIdle
    /\ shell_pc = "prompt"
    /\ runs = 0
    /\ run_input = << >>
    /\ _meta_commands = << >>
    /\ _meta_command_aliases = << >>

\* meta_command(...)(f), lines 80-100.
Register ==
    /\ \E d \in Decorations :
          /\ _meta_commands' = register_commands(_meta_commands, d.f, d.name, d.aliases)
          /\ _meta_command_aliases' =
                 register_aliases(_meta_command_aliases, d.f, d.name, d.aliases)
    /\ UNCHANGED <<run_vars, bash_vars, tr_vars, shell_vars, app_vars>>

NextRegistry == Register

SpecRegistry == InitRegistry /\ [][NextRegistry]_vars

\* The commands get_meta_commands returns.
Listed(c) == \E i \in DOMAIN get_meta_commands(_meta_commands) :
                 get_meta_commands(_meta_commands)[i] = c

\* C34: after any sequence of registrations, every command get_meta_command
\* returns is one of those get_meta_commands returns, each listed command is
\* what get_meta_command returns for its name and for each of its aliases, and
\* no two listed commands have the same primary name.
C34_RegistryConsistent ==
    LET listed == get_meta_commands(_meta_commands)
    IN /\ \A name \in LookupNames :
             get_meta_command(_meta_command_aliases, name) # NoMetaCommand
                 => Listed(get_meta_command(_meta_command_aliases, name))
       /\ \A i \in DOMAIN listed :
             /\ get_meta_command(_meta_command_aliases, listed[i].name) = listed[i]
             /\ \A a \in Range(listed[i].aliases) :
                    get_meta_command(_meta_command_aliases, a) = listed[i]
       /\ \A i, j \in DOMAIN listed : listed[i].name = listed[j].name => i = j

\* C35: kimi_run leaves the working directory of the process as it found it.
\* The directory does not change before kimi_run has remembered it, it is
\* remembered once, as it is when kimi_run changes it; while the UI app is built
\* and run the working directory is work_dir; and once kimi_run has returned or
\* raised after remembering it, it is the remembered one again, whether
\* app.run returned True, returned False or raised.
C35_WorkingDirectoryKept ==
    [][/\ original_cwd' = NoDir => cwd' = cwd
       /\ original_cwd' # original_cwd =>
             /\ app_pc = "kimi_run"
             /\ original_cwd = NoDir
             /\ original_cwd' = cwd
       /\ app_pc' \in {"try", "app_run", "finally"} =>
             cwd' = absolute(work_dir', original_cwd')
       /\ (app_pc' \in {"returned", "raised", "exited"} /\ original_cwd' # NoDir) =>
             cwd' = original_cwd']_vars

C35_Witness ==
    /\ app_pc = "raised"
    /\ app_exc = "RuntimeError"
    /\ work_dir = Root
    /\ original_cwd = Proj
    /\ cwd = Proj
====
